---- MODULE Spec2Model ----
(***************************************************************************)
(* RustGram: an encrypted image-hosting front end over a chat backend.     *)
(*                                                                         *)
(* Sixteen specifications share this module:                               *)
(*   SpecCrypto  the CryptoService functions of src/crypto.rs applied to   *)
(*               bounded inputs (references, byte strings, tampered and    *)
(*               forged tokens);                                           *)
(*   Spec        the upload pipeline: the upload handlers of src/handlers, *)
(*               the bounded job channel and the job store of              *)
(*               src/main.rs, and the upload worker of src/worker.rs;      *)
(*   SpecWorker  the job channel, its senders and the upload worker;       *)
(*   SpecClient  two jobs, the worker, and a client of GET /job/:id and    *)
(*               GET /image/:id (src/handlers/job.rs, image.rs);           *)
(*   SpecAdmin   DELETE /admin/image/:id of src/handlers/admin.rs;         *)
(*   SpecRL      the token-bucket rate limiter of                          *)
(*               src/middleware/rate_limit.rs, in f32 arithmetic;          *)
(*   SpecSubmit  the upload routes alone, one request after another;       *)
(*   SpecReject  the upload routes next to a pipeline carrying two jobs;   *)
(*   SpecPace    the channel and the worker with the worker's timer;       *)
(*   SpecError   AppError::into_response of src/error.rs;                  *)
(*   SpecLog     the operations that end with send_log_message;            *)
(*   SpecLock    the two mutexes and the tasks that take them;             *)
(*   SpecSize    one job through the worker and GET /image/:id on tokens   *)
(*               that record a right or a wrong size;                      *)
(*   SpecGC      the rate limiter next to the same limiter without         *)
(*               eviction and to one limiter per client;                   *)
(*   SpecCredit  the rate limiter with pauses that are parts of one        *)
(*               refill period;                                            *)
(*   SpecDrain   the channel, its senders and the worker under fair        *)
(*               scheduling.                                               *)
(*                                                                         *)
(* Bytes are integers 0..255; text is a sequence of ASCII codes.           *)
(***************************************************************************)
EXTENDS Integers, Sequences, FiniteSets, Bags, TLC

VARIABLES
    \* ---- SpecCrypto ----
    cpc,        \* step of the crypto scenario
    cref,       \* the FileReference handed to encrypt_file_reference
    cplain,     \* the bytes handed to encrypt_data
    ctoken,     \* the token (ASCII codes) handed to decrypt_file_reference
    cpacket,    \* the packet (bytes) handed to decrypt_data
    corigin,    \* how ctoken / cpacket was made
    cresult,    \* the Result of the last decrypt call
    \* ---- Spec ----
    queue,      \* the mpsc channel buffer of UploadJob
    senders,    \* the tasks holding the Sender side of the channel
    jobStore,   \* JobStore: job_id -> FileReference
    worker,     \* the upload worker task: its position and current job
    handlers,   \* the upload request handler tasks
    backend,    \* the backend: message counter and the log of uploadFile calls
    jobLog,     \* history: enqueue order, start order, finished jobs, outcomes
    lastPoll,   \* the response of the last GET /job/:id
    lastImage,  \* the response of the last GET /image/:id
    \* ---- SpecAdmin ----
    admin,      \* the admin secret, the chat's messages, the last DELETE
    \* ---- SpecRL ----
    limiter,    \* the rate limiter: clock, buckets, the last request
    \* ---- SpecPace ----
    clock,      \* the worker's timer: time since its last upload call, sleep left
    \* ---- SpecError ----
    replies,    \* two AppError values and the responses made of them
    \* ---- SpecLog ----
    logs,       \* the log chat and the last operation that sent a log message
    \* ---- SpecLock ----
    locks       \* the two mutexes and the tasks that take them

cryptoVars == <<cpc, cref, cplain, ctoken, cpacket, corigin, cresult>>
\* what the clients of the read routes hold
clientVars == <<lastPoll, lastImage>>
\* the variables no action of the upload pipeline touches
taskVars == <<clock, locks, replies, logs>>
auxVars == <<admin, limiter, taskVars>>
uploadVars == <<queue, senders, jobStore, worker, handlers, backend, jobLog, clientVars>>
sideVars == <<cryptoVars, auxVars>>
pipeVars == <<queue, senders, jobStore, worker, handlers, backend, jobLog, clientVars,
              auxVars>>
vars == <<cryptoVars, pipeVars>>

----------------------------------------------------------------------------
(* Bounds *)

\* FileReference.size and the lengths of plaintexts range over 0..MaxSize
MaxSize == 1

\* the tasks that send one UploadJob each on the channel
NumSenders == 3

\* the capacity of the job channel.  main.rs creates it with 100; the model
\* scales it down so that a full queue is reached with NumSenders jobs
QueueCap == 2
\* config.upload_delay_secs, in seconds
UploadDelaySecs == 2

\* config.max_file_size, scaled down (the default is 10 MiB)
MaxFileSize == 2

----------------------------------------------------------------------------
(* Generic helpers *)

Byte == 0..255

\* F applied to the value of v: v is evaluated once, whatever F does with it
Bind(v, F(_)) == CHOOSE r \in {F(x) : x \in {v}} : TRUE

\* the sum of the elements of a sequence of naturals
SumSeq(s) == BagCardinality([i \in 1..Len(s) |-> s[i] + 1]) - Len(s)

\* the sum of i * s[i]
WeightedSum(s) == SumSeq([i \in 1..Len(s) |-> i * s[i]])

Pow2(n) == CASE n = 0 -> 1 [] n = 1 -> 2 [] n = 2 -> 4 [] n = 3 -> 8
             [] n = 4 -> 16 [] n = 5 -> 32 [] n = 6 -> 64 [] n = 7 -> 128
             [] n = 8 -> 256 [] n = 10 -> 1024 [] OTHER -> 4096

\* the integer x with bit b inverted
FlipBitOf(x, b) == IF (x \div Pow2(b)) % 2 = 1 THEN x - Pow2(b) ELSE x + Pow2(b)

\* Result<T, E>
Ok(v) == [ok |-> TRUE, val |-> v, err |-> [kind |-> "none", detail |-> ""]]
Err(e) == [ok |-> FALSE, val |-> <<>>, err |-> e]

----------------------------------------------------------------------------
(* AppError, src/error.rs *)

AppErr(kind, detail) == [kind |-> kind, detail |-> detail]

InvalidImageId == AppErr("InvalidImageId", "")

----------------------------------------------------------------------------
(* The AEAD cipher (crate aes_gcm, Aes256Gcm): a keyed stream cipher with  *)
(* a 16-byte tag over key, nonce and ciphertext.  It has the properties    *)
(* the callers rely on: deterministic in (key, nonce, plaintext), output   *)
(* 16 bytes longer than the input, and a tag that changes whenever one bit *)
(* of the nonce, the ciphertext or the tag changes.                        *)

TagLen == 16
NonceLen == 12
KeyLen == 32

KeyStream(key, nonce, i) ==
    (3 * key[((i - 1) % KeyLen) + 1] + 5 * nonce[((i - 1) % NonceLen) + 1] + i) % 256

AeadTag(key, nonce, ct) ==
    Bind(<<SumSeq(key) + SumSeq(nonce) + SumSeq(ct) + Len(ct), WeightedSum(ct)>>,
         LAMBDA sums : [j \in 1..TagLen |-> (sums[1] + key[j] + j * sums[2]) % 256])

\* cipher.encrypt(nonce, plaintext)
AeadEncrypt(key, nonce, plaintext) ==
    Bind(plaintext, LAMBDA pt :
    Bind([i \in 1..Len(pt) |-> (pt[i] + KeyStream(key, nonce, i)) % 256], LAMBDA ct :
        ct \o AeadTag(key, nonce, ct)))

\* a cipher that decrypts without verifying the tag
AeadDecrypt_Unverified(key, nonce, ciphertext) ==
    Bind(ciphertext, LAMBDA c :
        IF Len(c) < TagLen THEN Err("aead::Error")
        ELSE Bind(SubSeq(c, 1, Len(c) - TagLen), LAMBDA ct :
                Ok([i \in 1..Len(ct) |->
                        (ct[i] + 256 - KeyStream(key, nonce, i)) % 256])))

\* cipher.decrypt(nonce, ciphertext): Err(aead::Error) unless the tag verifies
AeadDecrypt(key, nonce, ciphertext) ==
    Bind(ciphertext, LAMBDA c :
        IF Len(c) < TagLen THEN Err("aead::Error")
        ELSE Bind(SubSeq(c, 1, Len(c) - TagLen), LAMBDA ct :
                IF SubSeq(c, Len(ct) + 1, Len(c)) # AeadTag(key, nonce, ct)
                THEN Err("aead::Error")
                ELSE Ok([i \in 1..Len(ct) |->
                            (ct[i] + 256 - KeyStream(key, nonce, i)) % 256])))

----------------------------------------------------------------------------
(* base64 URL_SAFE_NO_PAD (crate base64) *)

B64Char(v) ==
    IF v < 26 THEN 65 + v               \* A-Z
    ELSE IF v < 52 THEN 97 + (v - 26)   \* a-z
    ELSE IF v < 62 THEN 48 + (v - 52)   \* 0-9
    ELSE IF v = 62 THEN 45              \* -
    ELSE 95                             \* _

\* the 6-bit value of a symbol, -1 for a byte outside the alphabet
B64Val(c) ==
    IF c >= 65 /\ c <= 90 THEN c - 65
    ELSE IF c >= 97 /\ c <= 122 THEN c - 97 + 26
    ELSE IF c >= 48 /\ c <= 57 THEN c - 48 + 52
    ELSE IF c = 45 THEN 62
    ELSE IF c = 95 THEN 63
    ELSE -1

\* symbol k covers bits 6(k-1) .. 6k-1 of the input
Base64Encode(bytes) ==
    Bind(bytes, LAMBDA b :
        [k \in 1..((8 * Len(b) + 5) \div 6) |->
            Bind(6 * (k - 1), LAMBDA o :
                B64Char((((b[(o \div 8) + 1] * 256)
                          + (IF (o \div 8) + 2 <= Len(b) THEN b[(o \div 8) + 2] ELSE 0))
                         \div Pow2(10 - (o % 8))) % 64))])

\* Err on a symbol outside the alphabet (padding included), on an impossible
\* length, and on non-zero trailing bits in the last symbol; byte m covers
\* bits 8(m-1) .. 8m-1 of the symbols
Base64Decode(text) ==
    Bind(text, LAMBDA t :
    Bind((6 * Len(t)) \div 8, LAMBDA n :
        IF \E k \in 1..Len(t) : B64Val(t[k]) = -1 THEN Err("InvalidByte")
        ELSE IF Len(t) % 4 = 1 THEN Err("InvalidLength")
        ELSE IF 6 * Len(t) > 8 * n /\ B64Val(t[Len(t)]) % Pow2(6 * Len(t) - 8 * n) # 0
             THEN Err("InvalidLastSymbol")
        ELSE Ok([m \in 1..n |->
                Bind(8 * (m - 1), LAMBDA o :
                    ((B64Val(t[(o \div 6) + 1]) * 64 + B64Val(t[(o \div 6) + 2]))
                     \div Pow2(4 - (o % 6))) % 256)])))

----------------------------------------------------------------------------
(* serde_json for FileReference (src/models.rs), derive(Serialize,         *)
(* Deserialize): a JSON object with the struct's fields in declaration     *)
(* order.                                                                  *)

\* {"file_id":
LitFileId == <<123, 34, 102, 105, 108, 101, 95, 105, 100, 34, 58>>
\* ,"message_id":
LitMessageId == <<44, 34, 109, 101, 115, 115, 97, 103, 101, 95, 105, 100, 34, 58>>
\* ,"nonce":[
LitNonce == <<44, 34, 110, 111, 110, 99, 101, 34, 58, 91>>
\* ],"size":
LitSize == <<93, 44, 34, 115, 105, 122, 101, 34, 58>>
\* ,"mime_type":
LitMimeType == <<44, 34, 109, 105, 109, 101, 95, 116, 121, 112, 101, 34, 58>>
\* }
LitClose == <<125>>

Quote == 34
Backslash == 92
Comma == 44
Minus == 45
Digit0 == 48

RECURSIVE JsonEscape(_, _)
\* the characters of s from position i on; quotes and backslashes are escaped
JsonEscape(s, i) ==
    IF i > Len(s) THEN <<>>
    ELSE IF s[i] = Quote \/ s[i] = Backslash
         THEN <<Backslash, s[i]>> \o JsonEscape(s, i + 1)
         ELSE <<s[i]>> \o JsonEscape(s, i + 1)

JsonString(s) == <<Quote>> \o JsonEscape(s, 1) \o <<Quote>>

RECURSIVE JsonNat(_)
JsonNat(n) ==
    IF n < 10 THEN <<Digit0 + n>> ELSE JsonNat(n \div 10) \o <<Digit0 + (n % 10)>>

JsonInt(n) == IF n < 0 THEN <<Minus>> \o JsonNat(0 - n) ELSE JsonNat(n)

RECURSIVE JsonList(_, _)
\* the elements of a JSON array of numbers from position i on, with commas
JsonList(s, i) ==
    IF i > Len(s) THEN <<>>
    ELSE IF i = Len(s) THEN JsonInt(s[i])
    ELSE JsonInt(s[i]) \o <<Comma>> \o JsonList(s, i + 1)

\* serde_json::to_vec(file_ref)
ToJson(file_ref) ==
    Bind(file_ref, LAMBDA r :
        LitFileId \o JsonString(r.file_id)
        \o LitMessageId \o JsonInt(r.message_id)
        \o LitNonce \o JsonList(r.nonce, 1)
        \o LitSize \o JsonInt(r.size)
        \o LitMimeType \o JsonString(r.mime_type)
        \o LitClose)

\* ---- deserialization: a parse step returns [ok, val, pos] ----

ParseFail == [ok |-> FALSE, val |-> 0, pos |-> 0]

\* the literal lit at position i of s
Expect(s, i, lit) ==
    IF i >= 1 /\ i + Len(lit) - 1 <= Len(s) /\ SubSeq(s, i, i + Len(lit) - 1) = lit
    THEN [ok |-> TRUE, val |-> 0, pos |-> i + Len(lit)]
    ELSE ParseFail

\* the position of the closing quote of the string that starts after
\* position i - 1, or 0: the first quote not preceded by an odd run of
\* backslashes
IsEscaped(s, i, k) ==
    \E j \in i..(k - 1) :
        /\ \A m \in j..(k - 1) : s[m] = Backslash
        /\ (j = i \/ s[j - 1] # Backslash)
        /\ (k - j) % 2 = 1
ClosingQuote(s, i) ==
    Bind({k \in i..Len(s) : s[k] = Quote /\ ~IsEscaped(s, i, k)}, LAMBDA qs :
        IF qs = {} THEN 0 ELSE CHOOSE k \in qs : \A m \in qs : k <= m)

RECURSIVE Unescape(_, _, _)
\* the characters of s in i..(k - 1) with the escapes \" and \\ undone;
\* <<-1>> marks an unknown escape or a character that must be escaped
Unescape(s, i, k) ==
    IF i >= k THEN <<>>
    ELSE IF s[i] = Backslash
         THEN IF i + 1 < k /\ (s[i + 1] = Quote \/ s[i + 1] = Backslash)
              THEN <<s[i + 1]>> \o Unescape(s, i + 2, k)
              ELSE <<-1>>
    ELSE IF s[i] < 32 \/ s[i] > 126 THEN <<-1>>
    ELSE <<s[i]>> \o Unescape(s, i + 1, k)

ParseString(s, i) ==
    IF i > Len(s) \/ s[i] # Quote THEN ParseFail
    ELSE Bind(ClosingQuote(s, i + 1), LAMBDA k :
            IF k = 0 THEN ParseFail
            ELSE Bind(Unescape(s, i + 1, k), LAMBDA v :
                    IF \E m \in 1..Len(v) : v[m] = -1 THEN ParseFail
                    ELSE [ok |-> TRUE, val |-> v, pos |-> k + 1]))

IsDigit(c) == c >= Digit0 /\ c <= Digit0 + 9

\* the number of digits from position i on
DigitRun(s, i) ==
    Bind({k \in i..(Len(s) + 1) : k > Len(s) \/ ~IsDigit(s[k])}, LAMBDA ends :
        (CHOOSE k \in ends : \A m \in ends : k <= m) - i)

RECURSIVE DigitsValue(_, _, _)
\* the value of the n digits that end at position j
DigitsValue(s, j, n) ==
    IF n = 0 THEN 0 ELSE 10 * DigitsValue(s, j - 1, n - 1) + (s[j] - Digit0)

\* an unsigned JSON integer: no empty number, no leading zero
ParseNat(s, i) ==
    IF i > Len(s) THEN ParseFail
    ELSE Bind(DigitRun(s, i), LAMBDA n :
            IF n = 0 \/ (n > 1 /\ s[i] = Digit0) THEN ParseFail
            ELSE [ok |-> TRUE, val |-> DigitsValue(s, i + n - 1, n), pos |-> i + n])

\* a signed JSON integer (i64)
ParseInt(s, i) ==
    IF i <= Len(s) /\ s[i] = Minus
    THEN Bind(ParseNat(s, i + 1), LAMBDA p :
            IF p.ok THEN [ok |-> TRUE, val |-> 0 - p.val, pos |-> p.pos] ELSE ParseFail)
    ELSE ParseNat(s, i)

RECURSIVE ParseBytes(_, _, _, _)
\* k more u8 elements of an array, separated by commas
ParseBytes(s, i, k, acc) ==
    IF k = 0 THEN [ok |-> TRUE, val |-> acc, pos |-> i]
    ELSE Bind(ParseNat(s, i), LAMBDA p :
            IF ~p.ok \/ p.val > 255 THEN ParseFail
            ELSE IF k = 1 THEN [ok |-> TRUE, val |-> Append(acc, p.val), pos |-> p.pos]
            ELSE IF p.pos <= Len(s) /\ s[p.pos] = Comma
                 THEN Bind(Append(acc, p.val), LAMBDA acc2 :
                        ParseBytes(s, p.pos + 1, k - 1, acc2))
                 ELSE ParseFail)

\* serde_json::from_slice::<FileReference>(plaintext), for input in the
\* form to_vec writes; anything else is a deserialization error
FromJson(plaintext) ==
    Bind(plaintext, LAMBDA s :
    Bind(Expect(s, 1, LitFileId), LAMBDA a :
    Bind(IF a.ok THEN ParseString(s, a.pos) ELSE ParseFail, LAMBDA fid :
    Bind(IF fid.ok THEN Expect(s, fid.pos, LitMessageId) ELSE ParseFail, LAMBDA b :
    Bind(IF b.ok THEN ParseInt(s, b.pos) ELSE ParseFail, LAMBDA mid :
    Bind(IF mid.ok THEN Expect(s, mid.pos, LitNonce) ELSE ParseFail, LAMBDA c :
    Bind(IF c.ok THEN ParseBytes(s, c.pos, NonceLen, <<>>) ELSE ParseFail, LAMBDA non :
    Bind(IF non.ok THEN Expect(s, non.pos, LitSize) ELSE ParseFail, LAMBDA d :
    Bind(IF d.ok THEN ParseNat(s, d.pos) ELSE ParseFail, LAMBDA sz :
    Bind(IF sz.ok THEN Expect(s, sz.pos, LitMimeType) ELSE ParseFail, LAMBDA e :
    Bind(IF e.ok THEN ParseString(s, e.pos) ELSE ParseFail, LAMBDA mt :
    Bind(IF mt.ok THEN Expect(s, mt.pos, LitClose) ELSE ParseFail, LAMBDA f :
        IF f.ok /\ f.pos = Len(s) + 1
        THEN Ok([file_id |-> fid.val, message_id |-> mid.val, nonce |-> non.val,
                 size |-> sz.val, mime_type |-> mt.val])
        ELSE Err("serde_json::Error")))))))))))))

----------------------------------------------------------------------------
(* CryptoService, src/crypto.rs *)

\* encrypt_data(data): nonce_bytes are the 12 bytes OsRng drew
encrypt_data(key, nonce_bytes, data) ==
    Bind(AeadEncrypt(key, nonce_bytes, data), LAMBDA ciphertext :
        Ok(nonce_bytes \o ciphertext))

\* mutant: the packet is split after 16 bytes instead of after the nonce
decrypt_data_SplitAtTag(key, encrypted_data) ==
    IF Len(encrypted_data) < TagLen
    THEN Err(AppErr("EncryptionError", "Invalid encrypted data"))
    ELSE Bind(AeadDecrypt(key, SubSeq(encrypted_data, 1, NonceLen),
                          SubSeq(encrypted_data, TagLen + 1, Len(encrypted_data))),
              LAMBDA plaintext :
                IF plaintext.ok THEN Ok(plaintext.val)
                ELSE Err(AppErr("EncryptionError", plaintext.err)))

decrypt_data(key, encrypted_data) ==
    IF Len(encrypted_data) < NonceLen
    THEN Err(AppErr("EncryptionError", "Invalid encrypted data"))
    ELSE Bind(AeadDecrypt(key, SubSeq(encrypted_data, 1, NonceLen),
                          SubSeq(encrypted_data, NonceLen + 1, Len(encrypted_data))),
              LAMBDA plaintext :
                IF plaintext.ok THEN Ok(plaintext.val)
                ELSE Err(AppErr("EncryptionError", plaintext.err)))

\* mutant: the nonce is not put in front of the ciphertext
encrypt_file_reference_NoNonce(key, file_ref) ==
    Bind(ToJson(file_ref), LAMBDA json_data :
    Bind(AeadEncrypt(key, file_ref.nonce, json_data), LAMBDA ciphertext :
        Ok(Base64Encode(ciphertext))))

encrypt_file_reference(key, file_ref) ==
    Bind(ToJson(file_ref), LAMBDA json_data :
    Bind(AeadEncrypt(key, file_ref.nonce, json_data), LAMBDA ciphertext :
    Bind(file_ref.nonce \o ciphertext, LAMBDA combined :
        Ok(Base64Encode(combined)))))

\* mutant: an authentication failure is reported as in decrypt_data
DecodeErrorOf_Aead(step) ==
    IF step = "decrypt" THEN AppErr("EncryptionError", "aead::Error") ELSE InvalidImageId

\* mutant: a deserialization failure is converted by From<serde_json::Error>
DecodeErrorOf_Json(step) ==
    IF step = "deserialize" THEN AppErr("InternalError", "JSON error") ELSE InvalidImageId

\* the error each failing step of decrypt_file_reference is mapped to
\* (map_err(|_| AppError::InvalidImageId) at every step)
DecodeErrorOf(step) == InvalidImageId

decrypt_file_reference(key, encrypted_id) ==
    Bind(Base64Decode(encrypted_id), LAMBDA combined :
        IF ~combined.ok THEN Err(DecodeErrorOf("base64"))
        ELSE IF Len(combined.val) < NonceLen THEN Err(DecodeErrorOf("short"))
        ELSE Bind(AeadDecrypt(key, SubSeq(combined.val, 1, NonceLen),
                              SubSeq(combined.val, NonceLen + 1, Len(combined.val))),
                  LAMBDA plaintext :
                    IF ~plaintext.ok THEN Err(DecodeErrorOf("decrypt"))
                    ELSE Bind(FromJson(plaintext.val), LAMBDA file_ref :
                            IF ~file_ref.ok THEN Err(DecodeErrorOf("deserialize"))
                            ELSE Ok(file_ref.val))))

----------------------------------------------------------------------------
(* Inputs of the crypto scenario *)

\* the configured 256-bit key (Config::get_encryption_key_bytes)
Key == [i \in 1..KeyLen |-> (7 * i + 11) % 256]

\* the values a random 12-byte nonce is drawn from
NonceA == [i \in 1..NonceLen |-> 0]
NonceB == [i \in 1..NonceLen |-> (37 * i + 200) % 256]
Nonces == {NonceA, NonceB}

\* backend handles: "AgAD" and a handle with a quote and a backslash, a"\
HandleA == <<65, 103, 65, 68>>
HandleB == <<97, Quote, Backslash>>
Handles == {HandleA, HandleB}

MessageIds == {-7, 12345}

\* "image/png", "image/jpeg"
MimePng == <<105, 109, 97, 103, 101, 47, 112, 110, 103>>
MimeJpeg == <<105, 109, 97, 103, 101, 47, 106, 112, 101, 103>>
Mimes == {MimePng, MimeJpeg}

Sizes == 0..MaxSize

FileReferences ==
    [file_id : Handles, message_id : MessageIds, nonce : Nonces,
     size : Sizes, mime_type : Mimes]

\* the references whose tokens the tampering scenario inverts bits of
TamperedReferences ==
    {r \in FileReferences : r.size = 0 /\ r.mime_type = MimePng /\ r.message_id < 0}

\* byte strings of length 0..MaxSize over a sample of byte values
SampleBytes == {0, 65, 255}
RECURSIVE SeqsUpTo(_, _)
SeqsUpTo(S, n) ==
    IF n = 0 THEN {<<>>}
    ELSE LET shorter == SeqsUpTo(S, n - 1)
         IN  shorter \cup {Append(s, x) : s \in {t \in shorter : Len(t) = n - 1}, x \in S}
Plaintexts == SeqsUpTo(SampleBytes, MaxSize)

\* tokens that are not base64: a symbol outside the alphabet, padding, an
\* impossible length, non-zero trailing bits
MalformedTokens == {<<33>>, <<65, 61>>, <<65>>, <<65, 66>>, <<65, 65, 65, 65, 65>>}

\* tokens that decode to fewer than 12 bytes
ShortTokens == {Base64Encode([i \in 1..n |-> 17 * i]) : n \in {0, 1, NonceLen - 1}}

\* tokens that decode to 12 bytes or more and do not authenticate
UnauthenticTokens ==
    {Base64Encode([i \in 1..n |-> (29 * i) % 256]) :
        n \in {NonceLen, NonceLen + 1, NonceLen + TagLen, NonceLen + TagLen + 3}}

\* authentic packets whose plaintext is no FileReference: arbitrary bytes,
\* a truncated object, a nonce of 11 elements, a nonce element over 255,
\* a negative size, trailing bytes after the object
SomeReference ==
    [file_id |-> HandleA, message_id |-> 0, nonce |-> NonceA, size |-> 0,
     mime_type |-> MimePng]
MalformedContents ==
    Plaintexts \cup
    { SubSeq(ToJson(SomeReference), 1, Len(ToJson(SomeReference)) - 1),
      ToJson([SomeReference EXCEPT !.nonce = SubSeq(NonceA, 1, NonceLen - 1)]),
      ToJson([SomeReference EXCEPT !.nonce = [NonceA EXCEPT ![1] = 256]]),
      ToJson([SomeReference EXCEPT !.size = -1]),
      ToJson(SomeReference) \o <<125>> }
MalformedContentTokens ==
    {Base64Encode(encrypt_data(Key, n, p).val) : n \in Nonces, p \in MalformedContents}

NoResult == [ok |-> FALSE, val |-> <<>>, err |-> AppErr("none", "")]
NoReference == [file_id |-> <<>>, message_id |-> 0, nonce |-> NonceA, size |-> 0,
                mime_type |-> <<>>]

----------------------------------------------------------------------------
(* SpecCrypto: the CryptoService functions applied to the inputs *)

CryptoInit ==
    /\ cpc = "idle"
    /\ cref = NoReference
    /\ cplain = <<>>
    /\ ctoken = <<>>
    /\ cpacket = <<>>
    /\ corigin = "none"
    /\ cresult = NoResult

\* encrypt_file_reference(r) for a reference r
EncodeReference ==
    /\ cpc = "idle"
    /\ \E r \in FileReferences :
        /\ cref' = r
        /\ ctoken' = encrypt_file_reference(Key, r).val
    /\ cpc' = "token"
    /\ corigin' = "encode"
    /\ UNCHANGED <<cplain, cpacket, cresult, pipeVars>>

\* one bit of one character of a valid token is inverted (bits 0..6: the
\* token is ASCII text)
TamperToken ==
    /\ cpc = "token"
    /\ corigin = "encode"
    /\ cref \in TamperedReferences
    /\ \E i \in 1..Len(ctoken), b \in 0..6 :
        ctoken' = [ctoken EXCEPT ![i] = FlipBitOf(ctoken[i], b)]
    /\ corigin' = "tamper"
    /\ UNCHANGED <<cpc, cref, cplain, cpacket, cresult, pipeVars>>

\* a client sends a token the service never issued
ForgeToken ==
    /\ cpc = "idle"
    /\ \/ ctoken' \in MalformedTokens /\ corigin' = "malformed"
       \/ ctoken' \in ShortTokens /\ corigin' = "short"
       \/ ctoken' \in UnauthenticTokens /\ corigin' = "unauthentic"
       \/ ctoken' \in MalformedContentTokens /\ corigin' = "content"
    /\ cpc' = "token"
    /\ UNCHANGED <<cref, cplain, cpacket, cresult, pipeVars>>

\* decrypt_file_reference(token)
DecodeReference ==
    /\ cpc = "token"
    /\ cresult' = decrypt_file_reference(Key, ctoken)
    /\ cpc' = "decoded"
    /\ UNCHANGED <<cref, cplain, ctoken, cpacket, corigin, pipeVars>>

\* encrypt_data(p) with the nonce OsRng draws
EncryptData ==
    /\ cpc = "idle"
    /\ \E p \in Plaintexts, n \in Nonces :
        /\ cplain' = p
        /\ cpacket' = encrypt_data(Key, n, p).val
    /\ cpc' = "packet"
    /\ corigin' = "encrypt"
    /\ UNCHANGED <<cref, ctoken, cresult, pipeVars>>

\* the key of another deployment
OtherKey == [i \in 1..KeyLen |-> (5 * i + 3) % 256]

\* packets shorter than a nonce
ShortPackets ==
    {<<>>, <<0>>, [i \in 1..(NonceLen - 1) |-> 0], [i \in 1..(NonceLen - 1) |-> 255],
     SubSeq(encrypt_data(Key, NonceB, <<>>).val, 1, NonceLen - 1)}

\* one bit of one byte of a packet encrypt_data made is inverted
TamperPacket ==
    /\ cpc = "packet"
    /\ corigin = "encrypt"
    /\ \E i \in 1..Len(cpacket), b \in 0..7 :
        cpacket' = [cpacket EXCEPT ![i] = FlipBitOf(cpacket[i], b)]
    /\ corigin' = "tampered"
    /\ UNCHANGED <<cpc, cref, cplain, ctoken, cresult, pipeVars>>

\* a packet this service did not make: too short, or encrypted under
\* another key
ForgePacket ==
    /\ cpc = "idle"
    /\ \/ cpacket' \in ShortPackets /\ corigin' = "shortpacket" /\ cplain' = cplain
       \/ \E p \in Plaintexts, n \in Nonces :
            /\ cplain' = p
            /\ cpacket' = encrypt_data(OtherKey, n, p).val
            /\ corigin' = "otherkey"
    /\ cpc' = "packet"
    /\ UNCHANGED <<cref, ctoken, cresult, pipeVars>>

\* decrypt_data(packet)
DecryptData ==
    /\ cpc = "packet"
    /\ cresult' = decrypt_data(Key, cpacket)
    /\ cpc' = "decrypted"
    /\ UNCHANGED <<cref, cplain, ctoken, cpacket, corigin, pipeVars>>

\* the admin route and the rate limiter take no part
AdminIdle == admin = <<>>
LimiterIdle == limiter = <<>>

\* time is not followed: a sleep ends at any later step
NoClock == [on |-> FALSE, gap |-> 0, left |-> 0]
ClockOff == clock = NoClock
\* the mutexes are not followed
LocksOff == locks = <<>>
\* no error is turned into a response on its own
RepliesOff == replies = <<>>
\* no operation is followed for its log message
LogsOff == logs = <<>>
TasksIdle == ClockOff /\ LocksOff /\ RepliesOff /\ LogsOff

\* the upload pipeline takes no part
PipeOff ==
    /\ queue = <<>>
    /\ senders = <<>>
    /\ jobStore = <<>>
    /\ worker = <<>>
    /\ handlers = <<>>
    /\ backend = <<>>
    /\ jobLog = <<>>
    /\ lastPoll = <<>>
    /\ lastImage = <<>>

PipeIdle == PipeOff /\ AdminIdle /\ LimiterIdle /\ TasksIdle

CryptoNext ==
    \/ EncodeReference
    \/ TamperToken
    \/ ForgeToken
    \/ DecodeReference
    \/ EncryptData
    \/ TamperPacket
    \/ ForgePacket
    \/ DecryptData

InitCrypto == CryptoInit /\ PipeIdle

SpecCrypto == InitCrypto /\ [][CryptoNext]_vars

----------------------------------------------------------------------------
(* Claims on the reference token and the byte envelope *)

\* C1: for every valid FileReference r, decoding the token that encoding r
\* produced succeeds and returns a reference equal to r in every field.
C1_ReferenceRoundTrip ==
    (cpc = "decoded" /\ corigin = "encode") =>
        (cresult.ok /\ cresult.val = cref)

\* C1 witness: a reference whose handle needs escaping, with a negative
\* message id, has been encoded and decoded back.
C1_Witness ==
    /\ cpc = "decoded" /\ corigin = "encode" /\ cresult.ok
    /\ cref.file_id = HandleB /\ cref.message_id < 0 /\ cref.nonce = NonceB
    /\ cref.size = MaxSize

\* C2: for every byte string p, the empty one included, decrypt_data of
\* encrypt_data(p) succeeds and returns p, whatever nonce was drawn.
C2_BytesRoundTrip ==
    (cpc = "decrypted" /\ corigin = "encrypt") =>
        (cresult.ok /\ cresult.val = cplain)

\* C2 witness: the empty byte string has been encrypted and decrypted.
C2_Witness ==
    cpc = "decrypted" /\ corigin = "encrypt" /\ cplain = <<>> /\ cresult.ok

\* C3: a valid token with one bit inverted never decodes to a reference;
\* the error is InvalidImageId and nothing else.
C3_TamperRejected ==
    (cpc = "decoded" /\ corigin = "tamper") =>
        (~cresult.ok /\ cresult.err = InvalidImageId)

\* C3 witness: a tampered token that is still well-formed base64 of the
\* same length (so that authentication decides) has been rejected.
C3_Witness ==
    /\ cpc = "decoded" /\ corigin = "tamper" /\ ~cresult.ok
    /\ Base64Decode(ctoken).ok

\* C4: whatever the token, a failing decrypt_file_reference returns
\* InvalidImageId, and each failure mode (not base64, short, not authentic,
\* malformed content) does fail.
C4_SingleDecodeError ==
    cpc = "decoded" =>
        /\ ~cresult.ok => cresult.err = InvalidImageId
        /\ corigin \in {"malformed", "short", "unauthentic", "content"} => ~cresult.ok

\* C4 witness: an authentic packet with malformed content was rejected with
\* InvalidImageId.
C4_Witness ==
    /\ cpc = "decoded" /\ corigin = "content" /\ ~cresult.ok
    /\ cresult.err = InvalidImageId
    /\ Len(ctoken) > 100

\* C25: decrypt_data fails with EncryptionError and returns no plaintext
\* when the packet is shorter than 12 bytes, when a bit of it was changed,
\* or when it was encrypted under a different key.
C25_DecryptRejects ==
    (cpc = "decrypted" /\ corigin \in {"shortpacket", "tampered", "otherkey"}) =>
        /\ ~cresult.ok
        /\ cresult.val = <<>>
        /\ cresult.err.kind = "EncryptionError"

\* C25 witness: a packet of a non-empty plaintext with a bit of its
\* ciphertext inverted was rejected.
C25_Witness ==
    /\ cpc = "decrypted" /\ corigin = "tampered" /\ ~cresult.ok
    /\ cplain # <<>>
    /\ \E n \in Nonces :
        /\ SubSeq(cpacket, 1, NonceLen) = n
        /\ cpacket[NonceLen + 1] # encrypt_data(Key, n, cplain).val[NonceLen + 1]

----------------------------------------------------------------------------
(* Configuration, src/config.rs, and the HTTP side of AppError *)

MimeGif == <<105, 109, 97, 103, 101, 47, 103, 105, 102>>
MimeWebp == <<105, 109, 97, 103, 101, 47, 119, 101, 98, 112>>
\* "text/plain", "application/octet-stream"
MimeText == <<116, 101, 120, 116, 47, 112, 108, 97, 105, 110>>
MimeOctet == <<97, 112, 112, 108, 105, 99, 97, 116, 105, 111, 110, 47, 111, 99, 116, 101, 116, 45, 115, 116, 114, 101, 97, 109>>
\* Option<String>::None
NoMime == <<>>

\* config.allowed_image_types
AllowedImageTypes == {MimeJpeg, MimePng, MimeGif, MimeWebp}

\* TelegramService::new(.., None): main.rs passes no log chat
LogChatId == "None"

\* an into_response that answers a backend failure as an internal error
into_response_Backend500(e) ==
    CASE e.kind = "TelegramError" -> [status |-> 500, error |-> "External service error"]
      [] e.kind = "EncryptionError" -> [status |-> 500, error |-> "Encryption error"]
      [] e.kind = "InvalidFileFormat" -> [status |-> 400, error |-> e.detail]
      [] e.kind = "FileTooLarge" -> [status |-> 413, error |-> "File too large. Maximum size"]
      [] e.kind = "RateLimitExceeded" -> [status |-> 429, error |-> "Rate limit exceeded"]
      [] e.kind = "TooManyRequests" -> [status |-> 429, error |-> "Too many concurrent requests"]
      [] e.kind = "NotFound" -> [status |-> 404, error |-> "Image not found"]
      [] e.kind = "InvalidImageId" -> [status |-> 400, error |-> "Invalid image ID"]
      [] e.kind = "InternalError" -> [status |-> 500, error |-> "Internal server error"]
      [] e.kind = "ValidationError" -> [status |-> 400, error |-> e.detail]
      [] e.kind = "ConfigError" -> [status |-> 500, error |-> "Configuration error"]
      [] e.kind = "Unauthorized" -> [status |-> 401, error |-> "Unauthorized"]
      [] e.kind = "InvalidId" -> [status |-> 400, error |-> "Invalid ID format"]

\* an into_response that sends the detail of an internal error
into_response_SendDetail(e) ==
    CASE e.kind = "TelegramError" -> [status |-> 503, error |-> "External service error"]
      [] e.kind = "EncryptionError" -> [status |-> 500, error |-> "Encryption error"]
      [] e.kind = "InvalidFileFormat" -> [status |-> 400, error |-> e.detail]
      [] e.kind = "FileTooLarge" -> [status |-> 413, error |-> "File too large. Maximum size"]
      [] e.kind = "RateLimitExceeded" -> [status |-> 429, error |-> "Rate limit exceeded"]
      [] e.kind = "TooManyRequests" -> [status |-> 429, error |-> "Too many concurrent requests"]
      [] e.kind = "NotFound" -> [status |-> 404, error |-> "Image not found"]
      [] e.kind = "InvalidImageId" -> [status |-> 400, error |-> "Invalid image ID"]
      [] e.kind = "InternalError" -> [status |-> 500, error |-> e.detail]
      [] e.kind = "ValidationError" -> [status |-> 400, error |-> e.detail]
      [] e.kind = "ConfigError" -> [status |-> 500, error |-> "Configuration error"]
      [] e.kind = "Unauthorized" -> [status |-> 401, error |-> "Unauthorized"]
      [] e.kind = "InvalidId" -> [status |-> 400, error |-> "Invalid ID format"]

\* AppError::into_response: (status, body message)
into_response(e) ==
    CASE e.kind = "TelegramError" -> [status |-> 503, error |-> "External service error"]
      [] e.kind = "EncryptionError" -> [status |-> 500, error |-> "Encryption error"]
      [] e.kind = "InvalidFileFormat" -> [status |-> 400, error |-> e.detail]
      [] e.kind = "FileTooLarge" -> [status |-> 413, error |-> "File too large. Maximum size"]
      [] e.kind = "RateLimitExceeded" -> [status |-> 429, error |-> "Rate limit exceeded"]
      [] e.kind = "TooManyRequests" -> [status |-> 429, error |-> "Too many concurrent requests"]
      [] e.kind = "NotFound" -> [status |-> 404, error |-> "Image not found"]
      [] e.kind = "InvalidImageId" -> [status |-> 400, error |-> "Invalid image ID"]
      [] e.kind = "InternalError" -> [status |-> 500, error |-> "Internal server error"]
      [] e.kind = "ValidationError" -> [status |-> 400, error |-> e.detail]
      [] e.kind = "ConfigError" -> [status |-> 500, error |-> "Configuration error"]
      [] e.kind = "Unauthorized" -> [status |-> 401, error |-> "Unauthorized"]
      [] e.kind = "InvalidId" -> [status |-> 400, error |-> "Invalid ID format"]

----------------------------------------------------------------------------
(* The backend client, src/services/telegram.rs *)

\* what sendDocument can answer: a transport or API error, a message
\* without a document, a message with a document
UploadOutcomes == {"error", "nodoc", "doc"}

\* the handle the backend assigns to the document of message m: "F" m
FileIdOf(m) == <<70>> \o JsonNat(m)

NoDocument == [some |-> FALSE, file_id |-> <<>>]

\* upload_file(data, filename): Result<TelegramMessage>, for the answer
\* `outcome` of the backend whose next message id is m
upload_file(outcome, m) ==
    CASE outcome = "error" -> Err(AppErr("TelegramError", "Upload failed"))
      [] outcome = "nodoc" -> Ok([message_id |-> m, document |-> NoDocument])
      [] outcome = "doc" ->
            Ok([message_id |-> m, document |-> [some |-> TRUE, file_id |-> FileIdOf(m)]])

\* the files of the backend after sendDocument answered `msg` for `data`:
\* a message with a document keeps the uploaded bytes under its file_id
Stored(files, msg, data) ==
    IF msg.ok /\ msg.val.document.some
    THEN (msg.val.document.file_id :> data) @@ files
    ELSE files

\* what getFile / the file download can answer
DownloadOutcomes == {"ok", "error"}

\* download_file_by_id(file_id): the bytes the backend keeps under file_id
download_file_by_id(files, file_id, outcome) ==
    IF outcome = "error" THEN Err(AppErr("TelegramError", "Failed to download file"))
    ELSE IF file_id \notin DOMAIN files
    THEN Err(AppErr("TelegramError", "Failed to get file info"))
    ELSE Ok(files[file_id])

\* send_log_message(text): Ok(()) at once when there is no log chat, else
\* the answer of sendMessage
LogOutcomes(log_chat_id) == IF log_chat_id = "None" THEN {"ok"} ELSE {"ok", "error"}
SendLogOutcomes == LogOutcomes(LogChatId)
send_log_message(outcome) ==
    IF outcome = "ok" THEN Ok(<<>>)
    ELSE Err(AppErr("TelegramError", "Failed to send log message"))

----------------------------------------------------------------------------
(* Models, src/models.rs, and the job types of src/worker.rs *)

\* FileReference::new: nonce is the 12 bytes thread_rng drew
FileReferenceNew(file_id, message_id, size, mime_type, nonce) ==
    [file_id |-> file_id, message_id |-> message_id, nonce |-> nonce,
     size |-> size, mime_type |-> mime_type]

ClientIp == "203.0.113.7:4711"

NoJob ==
    [job_id |-> 0, encrypted_data |-> <<>>, unique_filename |-> <<>>,
     original_size |-> 0, mime_type |-> <<>>, client_ip |-> ClientIp]

JobIds == 1..NumSenders

----------------------------------------------------------------------------
(* The upload handler, src/handlers/upload.rs and url_upload.rs *)

\* image::load_from_memory(data) succeeds: the data starts with the first
\* signature byte of PNG, JPEG, GIF or WEBP (a one-byte stand-in for the
\* codecs of crate image)
IsImage(data) == Len(data) >= 1 /\ data[1] \in {137, 255, 71, 82}

\* mime_guess::from_path(filename).first_or_octet_stream()
GuessMime(filename) ==
    CASE filename = "a.png" -> MimePng
      [] filename = "b.jpg" -> MimeJpeg
      [] filename = "c.txt" -> MimeText
      [] filename = "d.gif" -> MimeGif
      [] OTHER -> MimeOctet

\* Option<String>::None for the filename
NoFilename == "none"

\* the type of the filename preferred to the declared content type
final_mime_type_GuessFirst(req) ==
    IF req.filename # NoFilename THEN GuessMime(req.filename)
    ELSE IF req.content_type # NoMime THEN req.content_type
    ELSE MimeOctet

final_mime_type(req) ==
    IF req.content_type # NoMime THEN req.content_type
    ELSE GuessMime(IF req.filename = NoFilename THEN "unknown" ELSE req.filename)

\* the checks of upload_image before the upload: Ok(final_mime_type) or the
\* error returned
ValidateUpload(req) ==
    IF ~req.has_file
    THEN Err(AppErr("ValidationError", "No image file found in request"))
    ELSE IF Len(req.data) > MaxFileSize
    THEN Err(AppErr("FileTooLarge", "max_size"))
    ELSE IF final_mime_type(req) \notin AllowedImageTypes
    THEN Err(AppErr("InvalidFileFormat", "Unsupported image type"))
    ELSE IF ~IsImage(req.data)
    THEN Err(AppErr("InvalidFileFormat", "Invalid image data"))
    ELSE Ok(final_mime_type(req))

\* the bytes of a multipart body around the file part (boundary lines and
\* part headers), scaled down
MultipartFraming == 1
BodyLen(req) == (IF req.has_file THEN Len(req.data) ELSE 0) + MultipartFraming

\* RequestBodyLimitLayer::new(config.max_file_size) in front of every
\* route: a body declared (Content-Length) longer than the limit is
\* answered 413 by the layer; a longer body of undeclared length is cut
\* off when read past the limit
RequestBodyLimit(body_len, declared) ==
    IF body_len <= MaxFileSize THEN "passed"
    ELSE IF declared THEN "refused" ELSE "cut"
PayloadTooLarge == [kind |-> "PayloadTooLarge", error |-> "length limit exceeded"]

\* upload_image up to the upload: the multipart body is read, then checked
ReadUpload(req, limit) ==
    IF limit = "cut" /\ req.has_file
    THEN Err(AppErr("ValidationError", "Failed to read file"))
    ELSE ValidateUpload(req)

\* n bytes that start as a PNG / as a GIF / as no image
PngOf(n) == [i \in 1..n |-> 137]
GifOf(n) == [i \in 1..n |-> 71]
TextOf(n) == [i \in 1..n |-> 65]

\* the multipart requests posted to /upload: a PNG that fits the body
\* limit; a JPEG typed by its filename; files of the maximum size and
\* above; a text file; a PNG declared as text; a text-named file declared
\* as PNG; bytes that are no image; a file without name or type; a form
\* without a file
UploadRequests ==
    { [has_file |-> TRUE, data |-> PngOf(MaxFileSize - MultipartFraming),
       filename |-> "a.png", content_type |-> MimePng],
      [has_file |-> TRUE, data |-> <<255>>, filename |-> "b.jpg", content_type |-> NoMime],
      [has_file |-> TRUE, data |-> PngOf(MaxFileSize),
       filename |-> "a.png", content_type |-> MimePng],
      [has_file |-> TRUE, data |-> PngOf(MaxFileSize + 1),
       filename |-> "a.png", content_type |-> MimePng],
      [has_file |-> TRUE, data |-> <<137>>, filename |-> "c.txt", content_type |-> NoMime],
      [has_file |-> TRUE, data |-> <<137>>, filename |-> "a.png", content_type |-> MimeText],
      [has_file |-> TRUE, data |-> <<137>>, filename |-> "c.txt", content_type |-> MimePng],
      [has_file |-> TRUE, data |-> <<65>>, filename |-> NoFilename, content_type |-> MimePng],
      [has_file |-> TRUE, data |-> <<137>>, filename |-> NoFilename, content_type |-> NoMime],
      [has_file |-> FALSE, data |-> <<>>, filename |-> NoFilename, content_type |-> NoMime] }

\* the nonce OsRng draws for the payload of an upload, and the nonce
\* thread_rng draws for its FileReference
DataNonces == {NonceB}
RefNonces == {NonceA}

HandlerIds == {"h1"}

\* a handler task: `route`, `req` and `limit` note the request it serves
\* and what the body limit made of it
NoRequest == [has_file |-> FALSE, fetched |-> FALSE, data |-> <<>>,
              filename |-> NoFilename, content_type |-> NoMime]
IdleHandler ==
    [pc |-> "idle", size |-> 0, mime_type |-> NoMime, encrypted_data |-> <<>>,
     status |-> 0, body |-> <<>>, route |-> "none", req |-> NoRequest,
     limit |-> "none"]

\* "/image/"
ImagePath == <<47, 105, 109, 97, 103, 101, 47>>

\* Json(UploadResponse) with status 200
UploadResponse(encrypted_id, size, mime_type) ==
    [kind |-> "UploadResponse", id |-> encrypted_id, url |-> ImagePath \o encrypted_id,
     size |-> size, mime_type |-> mime_type]

ErrorBody(e) == [kind |-> "Error", error |-> into_response(e).error]

Responded(h, status, body) ==
    [handlers EXCEPT ![h] = [IdleHandler EXCEPT !.pc = "done", !.status = status,
                                              !.body = body,
                                              !.route = handlers[h].route,
                                              !.req = handlers[h].req,
                                              !.limit = handlers[h].limit]]

\* the handler task of `route` given `req`
Serving(route, req, limit) ==
    [IdleHandler EXCEPT !.route = route, !.req = req, !.limit = limit]

\* upload_image calling the backend before it has checked the file
UploadImage_UploadFirst(h) ==
    /\ handlers[h].pc = "idle"
    /\ \E req \in UploadRequests, n \in DataNonces, declared \in BOOLEAN :
        LET limit == RequestBodyLimit(BodyLen(req), declared)
            v == ReadUpload(req, limit)
            seen == Serving("upload", req, limit)
        IN  IF limit = "refused"
            THEN /\ handlers' = [handlers EXCEPT ![h] =
                        [seen EXCEPT !.pc = "done", !.status = 413,
                                     !.body = PayloadTooLarge]]
                 /\ UNCHANGED backend
            ELSE IF ~v.ok
            THEN /\ handlers' = [handlers EXCEPT ![h] =
                        [seen EXCEPT !.pc = "done",
                                     !.status = into_response(v.err).status,
                                     !.body = ErrorBody(v.err)]]
                 /\ backend' = [backend EXCEPT !.calls.handler = @ + 1]
            ELSE /\ handlers' = [handlers EXCEPT ![h] =
                        [seen EXCEPT !.pc = "upload", !.size = Len(req.data),
                                     !.mime_type = v.val,
                                     !.encrypted_data = encrypt_data(Key, n, req.data).val]]
                 /\ backend' = [backend EXCEPT !.calls.handler = @ + 1]
    /\ UNCHANGED <<queue, senders, jobStore, worker, jobLog, clientVars, sideVars>>

\* upload_image from the request to the call of upload_file: validation,
\* encrypt_data, then the handler awaits the backend
UploadImage(h) ==
    /\ handlers[h].pc = "idle"
    /\ \E req \in UploadRequests, n \in DataNonces, declared \in BOOLEAN :
        LET limit == RequestBodyLimit(BodyLen(req), declared)
            v == ReadUpload(req, limit)
            seen == Serving("upload", req, limit)
        IN  IF limit = "refused"
            THEN /\ handlers' = [handlers EXCEPT ![h] =
                        [seen EXCEPT !.pc = "done", !.status = 413,
                                     !.body = PayloadTooLarge]]
                 /\ UNCHANGED backend
            ELSE IF ~v.ok
            THEN /\ handlers' = [handlers EXCEPT ![h] =
                        [seen EXCEPT !.pc = "done",
                                     !.status = into_response(v.err).status,
                                     !.body = ErrorBody(v.err)]]
                 /\ UNCHANGED backend
            ELSE /\ handlers' = [handlers EXCEPT ![h] =
                        [seen EXCEPT !.pc = "upload", !.size = Len(req.data),
                                     !.mime_type = v.val,
                                     !.encrypted_data = encrypt_data(Key, n, req.data).val]]
                 /\ backend' = [backend EXCEPT !.calls.handler = @ + 1]
    /\ UNCHANGED <<queue, senders, jobStore, worker, jobLog, clientVars, sideVars>>

\* the size check with >= in place of >
ValidateUrlUpload_AtLeast(req) ==
    IF ~req.fetched
    THEN Err(AppErr("ValidationError", "Failed to download image"))
    ELSE IF Len(req.data) >= MaxFileSize
    THEN Err(AppErr("FileTooLarge", "max_size"))
    ELSE IF GuessMime(req.filename) \notin AllowedImageTypes
    THEN Err(AppErr("InvalidFileFormat", "Unsupported image type"))
    ELSE IF ~IsImage(req.data)
    THEN Err(AppErr("InvalidFileFormat", "Invalid image data"))
    ELSE Ok(GuessMime(req.filename))

\* the allow-list check made before the size check
ValidateUrlUpload_TypeFirst(req) ==
    IF ~req.fetched
    THEN Err(AppErr("ValidationError", "Failed to download image"))
    ELSE IF GuessMime(req.filename) \notin AllowedImageTypes
    THEN Err(AppErr("InvalidFileFormat", "Unsupported image type"))
    ELSE IF Len(req.data) > MaxFileSize
    THEN Err(AppErr("FileTooLarge", "max_size"))
    ELSE IF ~IsImage(req.data)
    THEN Err(AppErr("InvalidFileFormat", "Invalid image data"))
    ELSE Ok(GuessMime(req.filename))

\* the checks of upload_from_url before the upload, on the outcome of the
\* download: Ok(final_mime_type) or the error returned
ValidateUrlUpload(req) ==
    IF ~req.fetched
    THEN Err(AppErr("ValidationError", "Failed to download image"))
    ELSE IF Len(req.data) > MaxFileSize
    THEN Err(AppErr("FileTooLarge", "max_size"))
    ELSE IF GuessMime(req.filename) \notin AllowedImageTypes
    THEN Err(AppErr("InvalidFileFormat", "Unsupported image type"))
    ELSE IF ~IsImage(req.data)
    THEN Err(AppErr("InvalidFileFormat", "Invalid image data"))
    ELSE Ok(GuessMime(req.filename))

\* the URLs posted to /upload_from_url, by their last path segment and what
\* the download gives: a GIF; a GIF of the maximum size; GIF and text files
\* above it; bytes that are no image under a .png name; a GIF under a .txt
\* name and under a name without extension; a URL that cannot be fetched
UrlRequests ==
    { [fetched |-> TRUE, data |-> <<71>>, filename |-> "d.gif"],
      [fetched |-> TRUE, data |-> GifOf(MaxFileSize), filename |-> "d.gif"],
      [fetched |-> TRUE, data |-> GifOf(MaxFileSize + 1), filename |-> "d.gif"],
      [fetched |-> TRUE, data |-> TextOf(MaxFileSize + 1), filename |-> "c.txt"],
      [fetched |-> TRUE, data |-> TextOf(MaxFileSize), filename |-> "a.png"],
      [fetched |-> TRUE, data |-> <<71>>, filename |-> "c.txt"],
      [fetched |-> TRUE, data |-> <<71>>, filename |-> "e"],
      [fetched |-> FALSE, data |-> <<>>, filename |-> "d.gif"] }

\* upload_from_url from the request to the call of upload_file: download,
\* validation, encrypt_data, then the handler awaits the backend
UploadFromUrl(h) ==
    /\ handlers[h].pc = "idle"
    /\ \E req \in UrlRequests, n \in DataNonces :
        LET v == ValidateUrlUpload(req)
            seen == Serving("upload_from_url", req, "passed")
        IN  IF ~v.ok
            THEN /\ handlers' = [handlers EXCEPT ![h] =
                        [seen EXCEPT !.pc = "done",
                                     !.status = into_response(v.err).status,
                                     !.body = ErrorBody(v.err)]]
                 /\ UNCHANGED backend
            ELSE /\ handlers' = [handlers EXCEPT ![h] =
                        [seen EXCEPT !.pc = "upload", !.size = Len(req.data),
                                     !.mime_type = v.val,
                                     !.encrypted_data = encrypt_data(Key, n, req.data).val]]
                 /\ backend' = [backend EXCEPT !.calls.handler = @ + 1]
    /\ UNCHANGED <<queue, senders, jobStore, worker, jobLog, clientVars, sideVars>>

\* upload_image and upload_from_url after upload_file returned: the document handle, the
\* FileReference, its token, the log message, the response
UploadImageDone(h) ==
    /\ handlers[h].pc = "upload"
    /\ \E outcome \in UploadOutcomes, nonce \in RefNonces, logged \in SendLogOutcomes :
        LET msg == upload_file(outcome, backend.next_message_id)
        IN  /\ backend' = [backend EXCEPT
                    !.next_message_id = IF msg.ok THEN @ + 1 ELSE @,
                    !.files = Stored(@, msg, handlers[h].encrypted_data)]
            /\ IF ~msg.ok
               THEN handlers' = Responded(h, into_response(msg.err).status, ErrorBody(msg.err))
               ELSE IF ~msg.val.document.some
               THEN handlers' = Responded(h, 503,
                        ErrorBody(AppErr("TelegramError", "No document in response")))
               ELSE LET file_ref == FileReferenceNew(msg.val.document.file_id,
                                        msg.val.message_id, handlers[h].size,
                                        handlers[h].mime_type, nonce)
                        encrypted_id == encrypt_file_reference(Key, file_ref).val
                        log == send_log_message(logged)
                    IN  IF ~log.ok
                        THEN handlers' = Responded(h, into_response(log.err).status,
                                                   ErrorBody(log.err))
                        ELSE handlers' = Responded(h, 200,
                                UploadResponse(encrypted_id, handlers[h].size,
                                               handlers[h].mime_type))
    /\ UNCHANGED <<queue, senders, jobStore, worker, jobLog, clientVars, sideVars>>

----------------------------------------------------------------------------
(* The job channel, src/main.rs:56, and its senders.  No handler under     *)
(* src/ sends on upload_queue; the sending side follows the submit         *)
(* operation of the design: a validated, encrypted upload becomes an       *)
(* UploadJob with a fresh job id and is sent with send(job).await, which   *)
(* suspends while the channel is full.                                     *)

\* the validated uploads jobs are made of: sender p submits the payload
\* UploadOf(p), so that consecutive job ids differ in size and type
Uploads == << [data |-> <<137, 80>>, mime_type |-> MimePng],
              [data |-> <<255>>, mime_type |-> MimeJpeg] >>
UploadOf(p) == Uploads[((p - 1) % Len(Uploads)) + 1]

NewJob(p, u, n) ==
    [job_id |-> p, encrypted_data |-> encrypt_data(Key, n, u.data).val,
     unique_filename |-> <<p>>, original_size |-> Len(u.data),
     mime_type |-> u.mime_type, client_ip |-> ClientIp]

Enqueued(job) ==
    /\ queue' = Append(queue, job)
    /\ jobLog' = [jobLog EXCEPT
            !.enq = Append(@, job.job_id),
            !.jobs = (job.job_id :> [original_size |-> job.original_size,
                                     mime_type |-> job.mime_type]) @@ @]

\* submit: the job is built and sent; the sender is suspended if the
\* channel is full
SubmitJob(p) ==
    /\ senders[p].pc = "idle"
    /\ \E u \in {UploadOf(p)}, n \in DataNonces :
        IF Len(queue) < QueueCap
        THEN /\ Enqueued(NewJob(p, u, n))
             /\ senders' = [senders EXCEPT ![p] = [pc |-> "sent", job |-> NoJob]]
        ELSE /\ senders' = [senders EXCEPT ![p] = [pc |-> "blocked", job |-> NewJob(p, u, n)]]
             /\ UNCHANGED <<queue, jobLog>>
    /\ UNCHANGED <<jobStore, worker, handlers, backend, clientVars, sideVars>>

\* a suspended send completes once the channel has room
SubmitResume(p) ==
    /\ senders[p].pc = "blocked"
    /\ Len(queue) < QueueCap
    /\ Enqueued(senders[p].job)
    /\ senders' = [senders EXCEPT ![p] = [pc |-> "sent", job |-> NoJob]]
    /\ UNCHANGED <<jobStore, worker, handlers, backend, clientVars, sideVars>>

----------------------------------------------------------------------------
(* The upload worker, src/worker.rs *)

\* a channel that loses the job behind the one it hands out
Dequeue_Drop(q) ==
    [job |-> Head(q), rest |-> IF Len(q) > 1 THEN Tail(Tail(q)) ELSE <<>>]

\* a channel that hands out the newest job first
Dequeue_Last(q) == [job |-> q[Len(q)], rest |-> SubSeq(q, 1, Len(q) - 1)]

\* a channel whose recv leaves the job in the buffer
Dequeue_Peek(q) == [job |-> Head(q), rest |-> q]

\* rx.recv(): the job received from the channel and what stays in it
Dequeue(q) == [job |-> Head(q), rest |-> Tail(q)]

\* the worker is at `while let Some(job) = rx.recv().await`
WorkerAtRecv == worker.pc = "recv"

\* a process_job that records the length of the encrypted payload as size
process_job_EncryptedSize(job, uploaded, nonce, store) ==
    IF ~uploaded.ok THEN [result |-> Err(uploaded.err), store |-> store]
    ELSE IF ~uploaded.val.document.some
    THEN [result |-> Err(AppErr("TelegramError", "No document in response")),
          store |-> store]
    ELSE LET file_ref == FileReferenceNew(uploaded.val.document.file_id,
                            uploaded.val.message_id, Len(job.encrypted_data),
                            job.mime_type, nonce)
         IN  [result |-> Ok(<<>>), store |-> (job.job_id :> file_ref) @@ store]

\* a process_job that stores a reference with an empty handle when the
\* response carries no document
process_job_StoreWithoutDocument(job, uploaded, nonce, store) ==
    IF ~uploaded.ok THEN [result |-> Err(uploaded.err), store |-> store]
    ELSE LET file_ref == FileReferenceNew(uploaded.val.document.file_id,
                            uploaded.val.message_id, job.original_size,
                            job.mime_type, nonce)
         IN  [result |-> Ok(<<>>), store |-> (job.job_id :> file_ref) @@ store]

\* process_job after upload_file returned `uploaded`: the result and the
\* job store
process_job(job, uploaded, nonce, store) ==
    IF ~uploaded.ok THEN [result |-> Err(uploaded.err), store |-> store]
    ELSE IF ~uploaded.val.document.some
    THEN [result |-> Err(AppErr("TelegramError", "No document in response")),
          store |-> store]
    ELSE LET file_ref == FileReferenceNew(uploaded.val.document.file_id,
                            uploaded.val.message_id, job.original_size,
                            job.mime_type, nonce)
         IN  [result |-> Ok(<<>>), store |-> (job.job_id :> file_ref) @@ store]

\* what the worker task leaves alone
workerFrame == <<cryptoVars, admin, limiter, locks, replies, logs>>

\* recv returns a job and process_job calls upload_file, which the worker
\* awaits
WorkerRecv ==
    /\ WorkerAtRecv
    /\ queue # <<>>
    /\ LET d == Dequeue(queue)
       IN  /\ queue' = d.rest
           /\ worker' = [pc |-> "upload", job |-> d.job]
           /\ backend' = [backend EXCEPT !.calls.worker = Append(@, d.job.job_id)]
    /\ clock' = [clock EXCEPT !.gap = 0]
    /\ UNCHANGED <<senders, jobStore, handlers, jobLog, clientVars, workerFrame>>

\* a worker that sleeps only after a job that succeeded
WorkerSleep_OnSuccess(result) == IF result.ok THEN UploadDelaySecs ELSE 0

\* Duration::from_secs(config.upload_delay_secs): what the worker sleeps
\* after a job that ended with `result`
WorkerSleep(result) == UploadDelaySecs

\* upload_file returns: process_job finishes, the log message is sent and
\* its failure only traced, the failure of the job only traced; the worker
\* starts its sleep
WorkerUploadDone ==
    /\ worker.pc = "upload"
    /\ \E outcome \in UploadOutcomes, nonce \in RefNonces, logged \in SendLogOutcomes :
        LET uploaded == upload_file(outcome, backend.next_message_id)
            done == process_job(worker.job, uploaded, nonce, jobStore)
        IN  /\ jobStore' = done.store
            /\ backend' = [backend EXCEPT
                    !.next_message_id = IF uploaded.ok THEN @ + 1 ELSE @,
                    !.files = Stored(@, uploaded, worker.job.encrypted_data)]
            /\ jobLog' = [jobLog EXCEPT
                    !.outcome = (worker.job.job_id :>
                        [kind |-> outcome, ok |-> done.result.ok,
                         message_id |-> IF uploaded.ok THEN uploaded.val.message_id ELSE 0,
                         file_id |-> IF uploaded.ok THEN uploaded.val.document.file_id
                                     ELSE <<>>]) @@ @]
            /\ clock' = [clock EXCEPT !.left = WorkerSleep(done.result)]
    /\ worker' = [pc |-> "sleep", job |-> NoJob]
    /\ UNCHANGED <<queue, senders, handlers, clientVars, workerFrame>>

\* tokio::time::sleep(upload_delay_secs) is over: the timer has run down
WorkerWake ==
    /\ worker.pc = "sleep"
    /\ ~clock.on \/ clock.left = 0
    /\ worker' = [worker EXCEPT !.pc = "recv"]
    /\ clock' = [clock EXCEPT !.left = 0]
    /\ UNCHANGED <<queue, senders, jobStore, handlers, backend, jobLog, clientVars,
                   workerFrame>>

----------------------------------------------------------------------------
(* GET /job/:id, src/handlers/job.rs *)

\* a job-status handler that keeps the token of a job it has answered
\* and seals every other reference under a nonce drawn at the poll
get_job_status_FreshNonce(store, job_id) ==
    IF job_id \in DOMAIN store
    THEN LET file_ref == store[job_id]
             drawn == IF lastPoll.job_id = job_id THEN file_ref.nonce ELSE NonceB
             encrypted_id == encrypt_file_reference(Key,
                                [file_ref EXCEPT !.nonce = drawn]).val
         IN  [http |-> 200, status |-> "Completed",
              response |-> UploadResponse(encrypted_id, file_ref.size, file_ref.mime_type)]
    ELSE [http |-> 202, status |-> "Pending", response |-> <<>>]

\* a job-status handler that answers 404 for an id the job store lacks
get_job_status_NotFound(store, job_id) ==
    IF job_id \in DOMAIN store
    THEN LET file_ref == store[job_id]
             encrypted_id == encrypt_file_reference(Key, file_ref).val
         IN  [http |-> 200, status |-> "Completed",
              response |-> UploadResponse(encrypted_id, file_ref.size, file_ref.mime_type)]
    ELSE [http |-> 404, status |-> "NotFound", response |-> <<>>]

\* get_job_status: (status code, JobStatus)
get_job_status(store, job_id) ==
    IF job_id \in DOMAIN store
    THEN LET file_ref == store[job_id]
             encrypted_id == encrypt_file_reference(Key, file_ref).val
         IN  [http |-> 200, status |-> "Completed",
              response |-> UploadResponse(encrypted_id, file_ref.size, file_ref.mime_type)]
    ELSE [http |-> 202, status |-> "Pending", response |-> <<>>]

NoPoll == [job_id |-> 0, http |-> 0, status |-> "none", response |-> <<>>,
           processed |-> FALSE, present |-> FALSE, repeat |-> FALSE]

\* a client polls a job id, issued or not; `processed` notes whether the
\* worker had finished that job, `present` whether the job store held the
\* id, `repeat` whether the poll follows a Completed poll of the same id
GetJobStatus ==
    /\ \E id \in 1..(NumSenders + 1) :
        lastPoll' = [job_id |-> id, processed |-> id \in DOMAIN jobLog.outcome,
                     present |-> id \in DOMAIN jobStore,
                     repeat |-> lastPoll.job_id = id /\ lastPoll.status = "Completed"]
                    @@ get_job_status(jobStore, id)
    /\ UNCHANGED <<queue, senders, jobStore, worker, handlers, backend, jobLog,
                   lastImage, sideVars>>

----------------------------------------------------------------------------
(* GET /image/:id, src/handlers/image.rs *)

\* mime_type.parse::<HeaderValue>() succeeds: visible ASCII only
IsHeaderValue(text) == \A i \in 1..Len(text) : text[i] >= 32 /\ text[i] < 127

ImageError(e) ==
    [status |-> into_response(e).status, content_type |-> <<>>, body |-> <<>>,
     error |-> into_response(e).error]

\* an image handler that serves the payload as the backend keeps it
get_image_NoDecrypt(files, encrypted_id, outcome, logged) ==
    LET file_ref == decrypt_file_reference(Key, encrypted_id)
        encrypted_data == download_file_by_id(files, file_ref.val.file_id, outcome)
    IN  IF ~file_ref.ok THEN ImageError(file_ref.err)
        ELSE IF ~encrypted_data.ok THEN ImageError(encrypted_data.err)
        ELSE [status |-> 200, content_type |-> file_ref.val.mime_type,
              body |-> encrypted_data.val, error |-> ""]

\* an image handler that does not compare the decrypted length with the
\* reference
get_image_NoSizeCheck(files, encrypted_id, outcome, logged) ==
    LET file_ref == decrypt_file_reference(Key, encrypted_id)
        encrypted_data == download_file_by_id(files, file_ref.val.file_id, outcome)
        image_data == decrypt_data(Key, encrypted_data.val)
        log == send_log_message(logged)
    IN  IF ~file_ref.ok THEN ImageError(file_ref.err)
        ELSE IF ~encrypted_data.ok THEN ImageError(encrypted_data.err)
        ELSE IF ~image_data.ok THEN ImageError(image_data.err)
        ELSE IF ~IsHeaderValue(file_ref.val.mime_type)
        THEN ImageError(AppErr("InternalError", "Invalid MIME type"))
        ELSE IF ~log.ok THEN ImageError(log.err)
        ELSE [status |-> 200, content_type |-> file_ref.val.mime_type,
              body |-> image_data.val, error |-> ""]

\* get_image: the response (status, Content-Type, body).  The handler
\* compares the decrypted length with `file_ref.file_size`; FileReference
\* has one size field, `size`, which is what the comparison reads here.
get_image(files, encrypted_id, outcome, logged) ==
    LET file_ref == decrypt_file_reference(Key, encrypted_id)
        encrypted_data == download_file_by_id(files, file_ref.val.file_id, outcome)
        image_data == decrypt_data(Key, encrypted_data.val)
        log == send_log_message(logged)
    IN  IF ~file_ref.ok THEN ImageError(file_ref.err)
        ELSE IF ~encrypted_data.ok THEN ImageError(encrypted_data.err)
        ELSE IF ~image_data.ok THEN ImageError(image_data.err)
        ELSE IF Len(image_data.val) # file_ref.val.size
        THEN ImageError(AppErr("InternalError", "Decrypted file size mismatch"))
        ELSE IF ~IsHeaderValue(file_ref.val.mime_type)
        THEN ImageError(AppErr("InternalError", "Invalid MIME type"))
        ELSE IF ~log.ok THEN ImageError(log.err)
        ELSE [status |-> 200, content_type |-> file_ref.val.mime_type,
              body |-> image_data.val, error |-> ""]

NoImage == [job_id |-> 0, token |-> <<>>, download |-> "none", status |-> 0,
            content_type |-> <<>>, body |-> <<>>, error |-> ""]

\* a client that polled a Completed job fetches the image with the token of
\* that response
GetImage ==
    /\ lastPoll.status = "Completed"
    /\ \E outcome \in DownloadOutcomes, logged \in SendLogOutcomes :
        lastImage' = [job_id |-> lastPoll.job_id, token |-> lastPoll.response.id,
                      download |-> outcome]
                     @@ get_image(backend.files, lastPoll.response.id, outcome, logged)
    /\ UNCHANGED <<queue, senders, jobStore, worker, handlers, backend, jobLog,
                   lastPoll, sideVars>>

----------------------------------------------------------------------------
(* Spec: the upload pipeline *)

CryptoIdle == CryptoInit

InitPipe ==
    /\ CryptoIdle
    /\ queue = <<>>
    /\ senders = [p \in 1..NumSenders |-> [pc |-> "idle", job |-> NoJob]]
    /\ jobStore = <<>>
    /\ worker = [pc |-> "recv", job |-> NoJob]
    /\ handlers = [h \in HandlerIds |-> IdleHandler]
    /\ backend = [next_message_id |-> 1, calls |-> [worker |-> <<>>, handler |-> 0],
                  files |-> <<>>]
    /\ jobLog = [enq |-> <<>>, jobs |-> <<>>, outcome |-> <<>>]
    /\ lastPoll = NoPoll
    /\ lastImage = NoImage
    /\ AdminIdle
    /\ LimiterIdle
    /\ LocksOff
    /\ RepliesOff
    /\ LogsOff

Init == InitPipe /\ ClockOff

Next ==
    \/ \E h \in HandlerIds : UploadImage(h)
    \/ \E h \in HandlerIds : UploadFromUrl(h)
    \/ \E h \in HandlerIds : UploadImageDone(h)
    \/ \E p \in 1..NumSenders : SubmitJob(p)
    \/ \E p \in 1..NumSenders : SubmitResume(p)
    \/ WorkerRecv
    \/ WorkerUploadDone
    \/ WorkerWake

Spec == Init /\ [][Next]_vars

(* SpecWorker: the channel and the worker *)

InitWorker == Init

NextWorker ==
    \/ \E p \in 1..NumSenders : SubmitJob(p)
    \/ \E p \in 1..NumSenders : SubmitResume(p)
    \/ WorkerRecv
    \/ WorkerUploadDone
    \/ WorkerWake

SpecWorker == InitWorker /\ [][NextWorker]_vars

(* SpecClient: two jobs through the channel and the worker, and a client   *)
(* of the job-status and image routes.  The worker task is scheduled       *)
(* fairly and every backend call returns.                                  *)

ClientJobs == {1, 2}

InitClient == Init

NextClient ==
    \/ \E p \in ClientJobs : SubmitJob(p)
    \/ WorkerRecv
    \/ WorkerUploadDone
    \/ WorkerWake
    \/ GetJobStatus
    \/ GetImage

SpecClient ==
    /\ InitClient
    /\ [][NextClient]_vars
    /\ WF_vars(WorkerRecv)
    /\ WF_vars(WorkerUploadDone)
    /\ WF_vars(WorkerWake)

----------------------------------------------------------------------------
(* Claims about the upload pipeline *)

\* the job ids whose upload the worker started, in order
Started == backend.calls.worker

\* the worker has finished processing job j
Finished(j) == j \in DOMAIN jobLog.outcome

\* processing of job j failed: upload error or no document
JobFailed(j) == Finished(j) /\ jobLog.outcome[j].kind # "doc"

\* an upload request was answered with success
Succeeded(h) == handlers[h].pc = "done" /\ handlers[h].status < 400

\* C5: the upload submit operation returns a job id (HTTP 202 with job_id
\* and status_url) as soon as the job is enqueued, without waiting for the
\* backend upload: a successful answer of POST /upload is 202 with a
\* QueuedResponse and the request has made no backend upload itself.
C5_SubmitReturnsJobId ==
    \A h \in HandlerIds :
        Succeeded(h) =>
            /\ handlers[h].status = 202
            /\ handlers[h].body.kind = "QueuedResponse"
            /\ backend.calls.handler = 0

\* C6: the worker is the only component that calls the backend's upload
\* operation: no request handler has called upload_file.
C6_OnlyWorkerUploads == backend.calls.handler = 0

\* C7: jobs are processed in the order they were enqueued and one at a
\* time: the uploads started are a prefix of the enqueue order, every
\* started job but the last has finished, and the job being uploaded is the
\* last one started.
C7_FifoOneAtATime ==
    /\ Len(Started) <= Len(jobLog.enq)
    /\ Started = SubSeq(jobLog.enq, 1, Len(Started))
    /\ \A i \in 1..Len(Started) : i < Len(Started) => Finished(Started[i])
    /\ worker.pc = "upload" =>
        /\ Len(Started) >= 1
        /\ worker.job.job_id = Started[Len(Started)]
        /\ ~Finished(worker.job.job_id)

\* three jobs enqueued out of id order, two of them waiting in the channel
\* at once, were all processed
C7_Witness ==
    /\ jobLog.enq = <<3, 1, 2>>
    /\ Started = <<3, 1, 2>>
    /\ \A j \in {1, 2, 3} : Finished(j)

C9_StoreOnSuccess ==
    /\ \A j \in JobIds :
        (Finished(j) /\ jobLog.outcome[j].kind = "doc") =>
            /\ j \in DOMAIN jobStore
            /\ jobStore[j].file_id = jobLog.outcome[j].file_id
            /\ jobStore[j].message_id = jobLog.outcome[j].message_id
            /\ jobStore[j].size = jobLog.jobs[j].original_size
            /\ jobStore[j].mime_type = jobLog.jobs[j].mime_type
    /\ \A j \in DOMAIN jobStore : Finished(j) /\ jobLog.outcome[j].kind = "doc"

\* two jobs of different size and type are stored, after another job failed
C9_Witness ==
    \E i, j \in DOMAIN jobStore :
        /\ jobStore[i].size = 2 /\ jobStore[i].mime_type = MimePng
        /\ jobStore[j].size = 1 /\ jobStore[j].mime_type = MimeJpeg
        /\ jobStore[i].message_id > jobStore[j].message_id
        /\ \E k \in JobIds : JobFailed(k)

\* C10: when processing a job failed, the job store has no entry for it and
\* get_job_status answers Pending (202) for it in every later state;
\* get_job_status never answers Failed for any id.
C10_FailureStaysPending ==
    /\ \A j \in JobIds :
        JobFailed(j) =>
            /\ j \notin DOMAIN jobStore
            /\ get_job_status(jobStore, j).status = "Pending"
            /\ get_job_status(jobStore, j).http = 202
    /\ \A id \in 1..(NumSenders + 1) :
        get_job_status(jobStore, id).status \in {"Pending", "Completed"}

\* a job failed on an upload error, another on a missing document, a third
\* completed, and the failed ones are polled as Pending
C10_Witness ==
    \E i, j, k \in JobIds :
        /\ Finished(i) /\ jobLog.outcome[i].kind = "error"
        /\ Finished(j) /\ jobLog.outcome[j].kind = "nodoc"
        /\ get_job_status(jobStore, i).status = "Pending"
        /\ get_job_status(jobStore, j).status = "Pending"
        /\ get_job_status(jobStore, k).status = "Completed"

\* C11: each job is consumed exactly once and never retried: no job id
\* appears twice among the uploads the worker started, a job the worker
\* has received is no longer in the channel nor held by a sender, also
\* when its upload failed.
C11_UploadAtMostOnce ==
    /\ \A i, j \in 1..Len(Started) : Started[i] = Started[j] => i = j
    /\ \A i \in 1..Len(Started) :
        /\ \A k \in 1..Len(queue) : queue[k].job_id # Started[i]
        /\ senders[Started[i]].pc = "sent"

\* every job was processed, one failed on an upload error, one on a missing
\* document, and the worker waits on an empty channel
C11_Witness ==
    /\ Len(Started) = NumSenders
    /\ \E i, j \in JobIds :
        /\ JobFailed(i) /\ jobLog.outcome[i].kind = "error"
        /\ JobFailed(j) /\ jobLog.outcome[j].kind = "nodoc"
    /\ worker.pc = "recv"
    /\ queue = <<>>

\* job j was sent on the channel
Accepted(j) == \E i \in 1..Len(jobLog.enq) : jobLog.enq[i] = j

\* the image route answers 200 with the bytes and the type of upload j
ServesUpload(image, j) ==
    /\ image.status = 200
    /\ image.body = UploadOf(j).data
    /\ image.content_type = UploadOf(j).mime_type

TokenNonce(token) == SubSeq(Base64Decode(token).val, 1, NonceLen)

\* C18: encoding a reference is deterministic: the token a poll returned
\* for a Completed job is the encoding of the stored reference under the
\* reference's own nonce, and polling that job again gives the same token.
C18_EncodeDeterministic ==
    lastPoll.status = "Completed" =>
        /\ lastPoll.job_id \in DOMAIN jobStore
        /\ TokenNonce(lastPoll.response.id) = jobStore[lastPoll.job_id].nonce
        /\ lastPoll.response.id =
                encrypt_file_reference(Key, jobStore[lastPoll.job_id]).val
        /\ get_job_status(jobStore, lastPoll.job_id).response.id = lastPoll.response.id

\* a Completed job was polled twice in a row, after another job had been
\* polled
C18_Witness ==
    /\ lastPoll.status = "Completed"
    /\ lastPoll.repeat
    /\ lastImage.job_id # 0
    /\ lastImage.job_id # lastPoll.job_id

\* C19: the job status is derived from presence in the job store alone:
\* a poll answers 200 Completed exactly when the store holds the id and 202
\* Pending otherwise, also for ids never issued.
C19_StatusFromPresence ==
    /\ \A id \in 1..(NumSenders + 1) :
        LET polled == get_job_status(jobStore, id)
        IN  IF id \in DOMAIN jobStore
            THEN polled.http = 200 /\ polled.status = "Completed"
            ELSE polled.http = 202 /\ polled.status = "Pending"
    /\ lastPoll.job_id # 0 =>
        IF lastPoll.present
        THEN lastPoll.http = 200 /\ lastPoll.status = "Completed"
        ELSE lastPoll.http = 202 /\ lastPoll.status = "Pending"

\* the id that no sender uses was polled as Pending while the store held a
\* completed job and another job had failed
C19_Witness ==
    /\ lastPoll.job_id = NumSenders + 1
    /\ lastPoll.status = "Pending"
    /\ lastPoll.http = 202
    /\ DOMAIN jobStore # {}
    /\ \E j \in JobIds : JobFailed(j)

\* C20: a job store entry is never modified or deleted: every step keeps
\* the entries it finds, and after a poll answered Completed a later poll
\* of that id answers Completed with the same size, MIME type and token.
C20_EntryImmutable ==
    /\ [][\A j \in DOMAIN jobStore :
            j \in DOMAIN jobStore' /\ jobStore'[j] = jobStore[j]]_vars
    /\ [](lastPoll.status = "Completed" =>
            LET again == get_job_status(jobStore, lastPoll.job_id)
            IN  /\ again.http = 200
                /\ again.status = "Completed"
                /\ again.response = lastPoll.response)

\* job 1 was polled as Completed and fetched, job 2 completed later, and
\* job 1 was polled as Completed again twice
C20_Witness ==
    /\ lastPoll.job_id = 1
    /\ lastPoll.status = "Completed"
    /\ lastPoll.repeat
    /\ lastImage.job_id = 1
    /\ 2 \in DOMAIN jobStore
    /\ jobStore[2].message_id > jobStore[1].message_id

(***************************************************************************)
(* DELETE /admin/image/:id  (src/handlers/admin.rs)                        *)
(***************************************************************************)
\* Config.admin_secret: ADMIN_SECRET, or "" when the variable is unset
NoAdminSecret == ""
AdminSecrets == {NoAdminSecret, "s3cr3t"}
\* the api_key of the request body
ApiKeys == {"", "s3cr3t", "guess"}

Underscore == 95
Plus == 43
\* the chat the service stores its documents in, and what it holds
ChatId == 7
ChatMessages == {<<ChatId, 1>>, <<ChatId, 2>>}
\* the :id path segments: "7_1", "7_2", "7_9", "71", "7_x", "7_1_2"
DeleteIds ==
    { <<55, Underscore, 49>>, <<55, Underscore, 50>>, <<55, Underscore, 57>>,
      <<55, 49>>, <<55, Underscore, 120>>,
      <<55, Underscore, 49, Underscore, 50>> }

\* str::split(sep).collect()
RECURSIVE Split(_, _)
Split(text, sep) ==
    IF \A i \in 1..Len(text) : text[i] # sep THEN <<text>>
    ELSE LET at == CHOOSE i \in 1..Len(text) :
                        text[i] = sep /\ \A k \in 1..(i - 1) : text[k] # sep
         IN  <<SubSeq(text, 1, at - 1)>> \o Split(SubSeq(text, at + 1, Len(text)), sep)

RECURSIVE DecimalValue(_)
DecimalValue(digits) ==
    IF digits = <<>> THEN 0
    ELSE 10 * DecimalValue(SubSeq(digits, 1, Len(digits) - 1))
            + (digits[Len(digits)] - Digit0)

\* str::parse::<i64>().map_err(|_| AppError::InvalidId): an optional sign
\* and at least one digit (the ids drawn stay far inside i64)
parse_i64(text) ==
    LET signed == text # <<>> /\ text[1] \in {Plus, Minus}
        digits == IF signed THEN Tail(text) ELSE text
    IN  IF digits = <<>> \/ \E i \in 1..Len(digits) : ~IsDigit(digits[i])
        THEN Err(AppErr("InvalidId", ""))
        ELSE Ok(IF signed /\ text[1] = Minus
                THEN 0 - DecimalValue(digits) ELSE DecimalValue(digits))

\* TelegramService::delete_message: the request fails, or the backend
\* refuses a message the chat does not hold, or the message is removed
DeleteOutcomes == {"ok", "error"}
delete_message(messages, chat_id, message_id, outcome) ==
    IF outcome = "error" \/ <<chat_id, message_id>> \notin messages
    THEN [result |-> Err(AppErr("TelegramError", "Failed to delete message")),
          messages |-> messages]
    ELSE [result |-> Ok(<<>>), messages |-> messages \ {<<chat_id, message_id>>}]

\* what delete_image answers and leaves behind: `authorized` notes that the
\* api_key check passed, `invoked` that delete_message was called
AdminRefused(e, authorized, messages) ==
    [status |-> into_response(e).status, error |-> into_response(e).error,
     authorized |-> authorized, invoked |-> FALSE, messages |-> messages]

\* a handler that deletes first and compares the api_key afterwards
delete_image_DeleteFirst(secret, messages, api_key, id, outcome, logged) ==
    LET parts == Split(id, Underscore)
        chat_id == parse_i64(parts[1])
        message_id == parse_i64(parts[Len(parts)])
        deleted == delete_message(messages, chat_id.val, message_id.val, outcome)
    IN  IF Len(parts) # 2 \/ ~chat_id.ok \/ ~message_id.ok
        THEN AdminRefused(AppErr("InvalidId", ""), FALSE, messages)
        ELSE IF api_key # secret
        THEN [status |-> 401, error |-> "Unauthorized", authorized |-> FALSE,
              invoked |-> FALSE, messages |-> deleted.messages]
        ELSE [status |-> 200, error |-> "", authorized |-> TRUE, invoked |-> TRUE,
              messages |-> deleted.messages]

delete_image(secret, messages, api_key, id, outcome, logged) ==
    LET log == send_log_message(logged)
        parts == Split(id, Underscore)
    IN  IF api_key # secret
        THEN IF ~log.ok THEN AdminRefused(log.err, FALSE, messages)
             ELSE AdminRefused(AppErr("Unauthorized", ""), FALSE, messages)
        ELSE IF Len(parts) # 2
        THEN IF ~log.ok THEN AdminRefused(log.err, TRUE, messages)
             ELSE AdminRefused(AppErr("InvalidId", ""), TRUE, messages)
        ELSE LET chat_id == parse_i64(parts[1])
                 message_id == parse_i64(parts[2])
             IN  IF ~chat_id.ok THEN AdminRefused(chat_id.err, TRUE, messages)
                 ELSE IF ~message_id.ok
                 THEN AdminRefused(message_id.err, TRUE, messages)
                 ELSE LET deleted == delete_message(messages, chat_id.val,
                                                    message_id.val, outcome)
                          failed == IF ~log.ok THEN log.err ELSE deleted.result.err
                      IN  IF deleted.result.ok /\ log.ok
                          THEN [status |-> 200, error |-> "", authorized |-> TRUE,
                                invoked |-> TRUE, messages |-> deleted.messages]
                          ELSE [status |-> into_response(failed).status,
                                error |-> into_response(failed).error,
                                authorized |-> TRUE, invoked |-> TRUE,
                                messages |-> deleted.messages]

NoDelete == [api_key |-> "", id |-> <<>>, status |-> 0, error |-> "",
             authorized |-> FALSE, invoked |-> FALSE]

\* one DELETE /admin/image/:id request, from its arrival to its response
DeleteImage ==
    /\ \E api_key \in ApiKeys, id \in DeleteIds,
          outcome \in DeleteOutcomes, logged \in SendLogOutcomes :
        LET done == delete_image(admin.secret, admin.messages, api_key, id,
                                 outcome, logged)
        IN  admin' = [admin EXCEPT
                        !.messages = done.messages,
                        !.last = [api_key |-> api_key, id |-> id,
                                  status |-> done.status, error |-> done.error,
                                  authorized |-> done.authorized,
                                  invoked |-> done.invoked]]
    /\ UNCHANGED <<cryptoVars, uploadVars, limiter, taskVars>>

InitAdmin ==
    /\ CryptoIdle
    /\ PipeOff
    /\ LimiterIdle
    /\ TasksIdle
    /\ \E secret \in AdminSecrets :
        admin = [secret |-> secret, messages |-> ChatMessages, last |-> NoDelete]

NextAdmin == DeleteImage

SpecAdmin == InitAdmin /\ [][NextAdmin]_vars

\* C16: a DELETE /admin/image/{id} whose api_key differs from the
\* configured admin secret is answered 401 Unauthorized, does not call the
\* backend delete operation, and leaves the chat's messages as they were.
C16_WrongKeyUnauthorized ==
    /\ [](admin.last.status # 0 /\ admin.last.api_key # admin.secret =>
            /\ admin.last.status = 401
            /\ admin.last.error = "Unauthorized"
            /\ ~admin.last.authorized
            /\ ~admin.last.invoked)
    /\ [][admin'.last.api_key # admin'.secret =>
            admin'.messages = admin.messages]_admin

\* a request naming a stored message with a wrong api_key was refused 401
\* while the message is still in the chat
C16_Witness ==
    /\ admin.secret = "s3cr3t"
    /\ admin.last.api_key = "guess"
    /\ admin.last.id = <<55, Underscore, 49>>
    /\ admin.last.status = 401
    /\ <<ChatId, 1>> \in admin.messages

\* C17: with an empty admin secret the admin route is disabled: no DELETE
\* /admin/image request, whatever its api_key, is authorized or reaches the
\* backend delete operation, and the chat keeps its messages.
C17_EmptySecretDisables ==
    admin.secret = NoAdminSecret =>
        /\ ~admin.last.authorized
        /\ ~admin.last.invoked
        /\ admin.messages = ChatMessages

(***************************************************************************)
(* f32 arithmetic (IEEE 754 binary32, round to nearest, ties to even) as   *)
(* src/middleware/rate_limit.rs uses it.  A value is [neg, m, e] and       *)
(* stands for (-1)^neg * m * 2^e, with m = 0 or 2^23 <= m < 2^24.  The     *)
(* values met stay far from the subnormal and the infinite range.          *)
(***************************************************************************)
\* 2^n for n in 0..30
RECURSIVE Doubled(_)
Doubled(n) == IF n = 0 THEN 1 ELSE 2 * Doubled(n - 1)
Exp2Table == [n \in 0..30 |-> Doubled(n)]
Exp2(n) == Exp2Table[n]

\* the number of bits of n, 0 <= n < 2^31
RECURSIVE BitLen(_)
BitLen(n) ==
    IF n = 0 THEN 0
    ELSE IF n >= 16777216 THEN 24 + BitLen(n \div 16777216)
    ELSE IF n >= 4096 THEN 12 + BitLen(n \div 4096)
    ELSE 1 + BitLen(n \div 2)

F32Zero == [neg |-> FALSE, m |-> 0, e |-> 0]

\* round n * 2^e (0 < n < 2^31; `sticky`: nonzero bits were dropped below
\* n) to 24 significant bits
F32Round(n, e, sticky) ==
    IF BitLen(n) <= 24
    THEN [neg |-> FALSE, m |-> n * Exp2(24 - BitLen(n)), e |-> e - (24 - BitLen(n))]
    ELSE LET k == BitLen(n) - 24
             q == n \div Exp2(k)
             rem == n % Exp2(k)
             half == Exp2(k - 1)
             up == rem > half \/ (rem = half /\ (sticky \/ q % 2 = 1))
         IN  IF up /\ q + 1 = Exp2(24)
             THEN [neg |-> FALSE, m |-> Exp2(23), e |-> e + k + 1]
             ELSE [neg |-> FALSE, m |-> IF up THEN q + 1 ELSE q, e |-> e + k]

\* `n as f32` for an unsigned integer below 2^31
F32FromNat(n) == IF n = 0 THEN F32Zero ELSE F32Round(n, 0, FALSE)

\* a <= b
F32Le(a, b) ==
    IF a.neg # b.neg THEN a.neg \/ (a.m = 0 /\ b.m = 0)
    ELSE LET below == \/ a.m = 0
                      \/ b.m # 0 /\ (a.e < b.e \/ (a.e = b.e /\ a.m <= b.m))
             above == \/ b.m = 0
                      \/ a.m # 0 /\ (b.e < a.e \/ (a.e = b.e /\ b.m <= a.m))
         IN  IF a.neg THEN above ELSE below

\* f32::min
F32Min(a, b) == IF F32Le(a, b) THEN a ELSE b

\* a + b for a, b >= 0, with six guard bits and a sticky bit
F32Add(a, b) ==
    IF a.m = 0 THEN b
    ELSE IF b.m = 0 THEN a
    ELSE LET big == IF a.e >= b.e THEN a ELSE b
             small == IF a.e >= b.e THEN b ELSE a
             d == big.e - small.e
             shifted == IF d > 30 THEN 0 ELSE (small.m * 64) \div Exp2(d)
             sticky == IF d > 30 THEN TRUE ELSE (small.m * 64) % Exp2(d) # 0
         IN  F32Round(big.m * 64 + shifted, big.e - 6, sticky)

\* a - b for a, b >= 0
F32Sub(a, b) ==
    IF b.m = 0 THEN a
    ELSE IF a.m = 0 THEN [b EXCEPT !.neg = TRUE]
    ELSE IF a = b THEN F32Zero
    ELSE LET swap == ~F32Le(b, a)
             big == IF swap THEN b ELSE a
             small == IF swap THEN a ELSE b
             d == big.e - small.e
             sticky == IF d > 30 THEN small.m # 0 ELSE (small.m * 64) % Exp2(d) # 0
             shifted == IF d > 30 THEN 0 ELSE (small.m * 64) \div Exp2(d)
             n == big.m * 64 - shifted - (IF sticky THEN 1 ELSE 0)
         IN  [F32Round(n, big.e - 6, sticky) EXCEPT !.neg = swap]

\* a * b for a, b >= 0: the 48-bit product by 12-bit limbs
F32Mul(a, b) ==
    IF a.m = 0 \/ b.m = 0 THEN F32Zero
    ELSE LET a1 == a.m \div 4096
             a0 == a.m % 4096
             b1 == b.m \div 4096
             b0 == b.m % 4096
             mid == a1 * b0 + a0 * b1
             low == (mid % 4096) * 4096 + a0 * b0
             top == a1 * b1 + mid \div 4096 + low \div Exp2(24)
             rest == low % Exp2(24)
         IN  F32Round(top * 16 + rest \div Exp2(20), a.e + b.e + 20,
                      rest % Exp2(20) # 0)

\* the quotient bits of r / m, `chunks` times six at a time
RECURSIVE LongDiv(_, _, _, _)
LongDiv(q, r, m, chunks) ==
    IF chunks = 0 THEN [q |-> q, r |-> r]
    ELSE LongDiv(q * 64 + (r * 64) \div m, (r * 64) % m, m, chunks - 1)

\* a / b for a >= 0, b > 0: 27 quotient bits and a sticky remainder
F32Div(a, b) ==
    IF a.m = 0 THEN F32Zero
    ELSE LET d == LongDiv(a.m \div b.m, a.m % b.m, b.m, 4)
             q == d.q * 4 + (d.r * 4) \div b.m
             r == (d.r * 4) % b.m
         IN  F32Round(q, a.e - b.e - 26, r # 0)

F32One == F32FromNat(1)

(***************************************************************************)
(* The rate limiter  (src/middleware/rate_limit.rs)                        *)
(***************************************************************************)
\* std::time::Duration, and Instant as the Duration since the start
NanosPerSec == 1000000000
DurationZero == [secs |-> 0, nanos |-> 0]
DurationLe(a, b) == a.secs < b.secs \/ (a.secs = b.secs /\ a.nanos <= b.nanos)
DurationAdd(a, b) ==
    IF a.nanos + b.nanos >= NanosPerSec
    THEN [secs |-> a.secs + b.secs + 1, nanos |-> a.nanos + b.nanos - NanosPerSec]
    ELSE [secs |-> a.secs + b.secs, nanos |-> a.nanos + b.nanos]
\* Instant::duration_since (zero when `earlier` is later)
duration_since(later, earlier) ==
    IF DurationLe(later, earlier) THEN DurationZero
    ELSE IF later.nanos >= earlier.nanos
    THEN [secs |-> later.secs - earlier.secs, nanos |-> later.nanos - earlier.nanos]
    ELSE [secs |-> later.secs - earlier.secs - 1,
          nanos |-> later.nanos + NanosPerSec - earlier.nanos]

\* Duration::as_secs_f32
as_secs_f32(d) ==
    F32Add(F32FromNat(d.secs),
           F32Div(F32FromNat(d.nanos), F32FromNat(NanosPerSec)))

\* the least Duration of whole nanoseconds that is at least n / c seconds
WaitFor(n, c) ==
    LET r1 == (n % c) * 1000
        r2 == (r1 % c) * 1000
        r3 == (r2 % c) * 1000
        nanos == (r1 \div c) * 1000000 + (r2 \div c) * 1000 + (r3 \div c)
    IN  IF r3 % c = 0 THEN [secs |-> n \div c, nanos |-> nanos]
        ELSE DurationAdd([secs |-> n \div c, nanos |-> nanos],
                         [secs |-> 0, nanos |-> 1])

\* the refill period of a per-minute limiter, and the age at which call
\* drops a bucket
RefillPeriodSecs == 60
StaleSecs == 300

\* TokenBucket::new
TokenBucketNew(requests_per_minute, now) ==
    [tokens |-> F32FromNat(requests_per_minute),
     capacity |-> F32FromNat(requests_per_minute),
     refill_rate |-> F32Div(F32FromNat(requests_per_minute),
                            F32FromNat(RefillPeriodSecs)),
     last_refill |-> now]

\* a refill that does not cap the tokens
refill_Uncapped(bucket, now) ==
    [bucket EXCEPT
        !.tokens = F32Add(bucket.tokens,
                          F32Mul(as_secs_f32(duration_since(now, bucket.last_refill)),
                                 bucket.refill_rate)),
        !.last_refill = now]

\* TokenBucket::refill
refill(bucket, now) ==
    [bucket EXCEPT
        !.tokens = F32Min(F32Add(bucket.tokens,
                                 F32Mul(as_secs_f32(duration_since(now, bucket.last_refill)),
                                        bucket.refill_rate)),
                          bucket.capacity),
        !.last_refill = now]

\* TokenBucket::try_consume
try_consume(bucket, now) ==
    Bind(refill(bucket, now), LAMBDA filled :
        IF F32Le(F32One, filled.tokens)
        THEN [allowed |-> TRUE,
              bucket |-> [filled EXCEPT !.tokens = F32Sub(filled.tokens, F32One)]]
        ELSE [allowed |-> FALSE, bucket |-> filled])

\* the keys requests arrive under: a peer address, and "unknown" for a
\* request without ConnectInfo
PeerIp == "198.51.100.1"
UnknownIp == "unknown"
ClientKeys == {PeerIp, UnknownIp}
\* RateLimitLayer.requests_per_minute
Capacities == {1, 5, 19}
\* requests beyond the capacity that the peer makes, requests without
\* ConnectInfo, and waits
MaxExtra == 2
MaxOther == 1
MaxTicks == 1
Budget(key, rpm) == IF key = PeerIp THEN rpm + MaxExtra ELSE MaxOther
Waits(rpm) ==
    { WaitFor(RefillPeriodSecs - 1, rpm), WaitFor(RefillPeriodSecs, rpm),
      WaitFor(RefillPeriodSecs + 1, rpm), [secs |-> StaleSecs, nanos |-> 0] }

\* a sweep that keeps only the buckets refilled at this instant
Retained_Eager(buckets, now) ==
    { k \in DOMAIN buckets : buckets[k].last_refill = now }

\* store.retain(|_, bucket| now.duration_since(bucket.last_refill) < 300 s)
Retained(buckets, now) ==
    { k \in DOMAIN buckets :
        ~DurationLe([secs |-> StaleSecs, nanos |-> 0],
                    duration_since(now, buckets[k].last_refill)) }

\* the response of the downstream service
InnerStatus == 200

\* RateLimitService::call with the downstream service called on denial too
call_AlwaysInner(buckets, rpm, key, now, cleanup) ==
    LET bucket == IF key \in DOMAIN buckets THEN buckets[key]
                  ELSE TokenBucketNew(rpm, now)
        consumed == try_consume(bucket, now)
    IN  [allowed |-> consumed.allowed,
         status |-> IF consumed.allowed THEN InnerStatus ELSE 429,
         error |-> IF consumed.allowed THEN "" ELSE "Rate limit exceeded",
         invoked |-> TRUE,
         buckets |-> [k \in DOMAIN buckets \cup {key} |->
                        IF k = key THEN consumed.bucket ELSE buckets[k]]]

\* RateLimitService::call with the cleanup made on a denied request too
call_SweepOnDenial(buckets, rpm, key, now, cleanup) ==
    LET bucket == IF key \in DOMAIN buckets THEN buckets[key]
                  ELSE TokenBucketNew(rpm, now)
        consumed == try_consume(bucket, now)
        stored == [k \in DOMAIN buckets \cup {key} |->
                        IF k = key THEN consumed.bucket ELSE buckets[k]]
        left == IF cleanup THEN [k \in Retained(stored, now) |-> stored[k]] ELSE stored
    IN  IF ~consumed.allowed
        THEN [allowed |-> FALSE, status |-> 429, error |-> "Rate limit exceeded",
              invoked |-> FALSE, buckets |-> left]
        ELSE [allowed |-> TRUE, status |-> InnerStatus, error |-> "",
              invoked |-> TRUE, buckets |-> left]


\* a call that keeps one bucket for every client
call_OneBucket(buckets, rpm, key, now, cleanup) ==
    LET bucket == IF PeerIp \in DOMAIN buckets THEN buckets[PeerIp]
                  ELSE TokenBucketNew(rpm, now)
        consumed == try_consume(bucket, now)
        stored == [k \in DOMAIN buckets \cup {PeerIp} |->
                        IF k = PeerIp THEN consumed.bucket ELSE buckets[k]]
    IN  IF ~consumed.allowed
        THEN [allowed |-> FALSE, status |-> 429, error |-> "Rate limit exceeded",
              invoked |-> FALSE, buckets |-> stored]
        ELSE [allowed |-> TRUE, status |-> InnerStatus, error |-> "",
              invoked |-> TRUE,
              buckets |-> IF cleanup
                          THEN [k \in Retained(stored, now) |-> stored[k]]
                          ELSE stored]

\* RateLimitService::call: what it answers, whether it calls the
\* downstream service, and the store it leaves
call(buckets, rpm, key, now, cleanup) ==
    LET bucket == IF key \in DOMAIN buckets THEN buckets[key]
                  ELSE TokenBucketNew(rpm, now)
        consumed == try_consume(bucket, now)
        stored == [k \in DOMAIN buckets \cup {key} |->
                        IF k = key THEN consumed.bucket ELSE buckets[k]]
    IN  IF ~consumed.allowed
        THEN [allowed |-> FALSE, status |-> 429, error |-> "Rate limit exceeded",
              invoked |-> FALSE, buckets |-> stored]
        ELSE [allowed |-> TRUE, status |-> InnerStatus, error |-> "",
              invoked |-> TRUE,
              buckets |-> IF cleanup
                          THEN [k \in Retained(stored, now) |-> stored[k]]
                          ELSE stored]

NoCall == [key |-> "", allowed |-> FALSE, status |-> 0, error |-> "",
           invoked |-> FALSE, fresh |-> FALSE, waited |-> DurationZero,
           after_burst |-> FALSE, before |-> F32Zero]
NoTally == [calls |-> 0, admitted |-> 0, born |-> DurationZero]

\* one request through the limiter.  `tally` counts, per key, the requests
\* made and admitted on the bucket the key has now and notes when the
\* bucket was made; `last` describes the request: `fresh` when it made the
\* bucket, `waited` the time since the bucket's last refill, `before` the
\* tokens it found, `after_burst` when the request before it on this bucket
\* was the denied one that followed rpm admitted ones, all at the time the
\* bucket was made.  Called is the limiter after the request.
Called(key, cleanup) ==
    Bind(call(limiter.buckets, limiter.rpm, key, limiter.now, cleanup), LAMBDA done :
            LET had == key \in DOMAIN limiter.buckets
                old == limiter.tally[key]
                counted == [calls |-> (IF had THEN old.calls ELSE 0) + 1,
                            admitted |-> (IF had THEN old.admitted ELSE 0)
                                            + (IF done.allowed THEN 1 ELSE 0),
                            born |-> IF had THEN old.born ELSE limiter.now]
            IN  [limiter EXCEPT
                    !.buckets = done.buckets,
                    !.asked = [@ EXCEPT ![key] = @ + 1],
                    !.invoked = @ + (IF done.invoked THEN 1 ELSE 0),
                    !.consumed = @ + (IF done.allowed THEN 1 ELSE 0),
                    !.tally = [k \in ClientKeys |->
                                IF k = key THEN counted
                                ELSE IF k \in DOMAIN done.buckets THEN @[k]
                                ELSE NoTally],
                    !.last = [key |-> key, allowed |-> done.allowed,
                              status |-> done.status, error |-> done.error,
                              invoked |-> done.invoked, fresh |-> ~had,
                              waited |-> IF had
                                         THEN duration_since(limiter.now,
                                                limiter.buckets[key].last_refill)
                                         ELSE DurationZero,
                              before |-> IF had THEN limiter.buckets[key].tokens
                                         ELSE F32FromNat(limiter.rpm),
                              after_burst |->
                                    /\ had
                                    /\ old.calls = limiter.rpm + 1
                                    /\ old.admitted = limiter.rpm
                                    /\ limiter.buckets[key].last_refill = old.born]])

\* one request, with or without the 1% cleanup
Call ==
    /\ \E key \in ClientKeys, cleanup \in BOOLEAN :
        /\ limiter.asked[key] < Budget(key, limiter.rpm)
        /\ limiter' = Called(key, cleanup)
    /\ UNCHANGED <<cryptoVars, uploadVars, admin, taskVars>>

\* time passes; nothing runs
Tick ==
    /\ limiter.ticks < MaxTicks
    /\ \E wait \in Waits(limiter.rpm) :
        limiter' = [limiter EXCEPT !.now = DurationAdd(@, wait), !.ticks = @ + 1]
    /\ UNCHANGED <<cryptoVars, uploadVars, admin, taskVars>>

InitRL ==
    /\ CryptoIdle
    /\ PipeOff
    /\ AdminIdle
    /\ TasksIdle
    /\ \E rpm \in Capacities :
        limiter = [rpm |-> rpm, now |-> DurationZero, ticks |-> 0, buckets |-> <<>>,
                   asked |-> [k \in ClientKeys |-> 0], invoked |-> 0, consumed |-> 0,
                   tally |-> [k \in ClientKeys |-> NoTally], last |-> NoCall]

NextRL == Call \/ Tick

SpecRL == InitRL /\ [][NextRL]_vars

\* the requests on a bucket at the very time it was made: the first rpm are
\* admitted and every later one is denied
BurstAdmitsCapacity ==
    \A k \in DOMAIN limiter.buckets :
        limiter.tally[k].born = limiter.now =>
            limiter.tally[k].admitted =
                (IF limiter.tally[k].calls <= limiter.rpm
                 THEN limiter.tally[k].calls ELSE limiter.rpm)

\* the request that follows the burst and its denial after a wait of `wait`
\* or more is admitted
AdmitsAfter(wait) ==
    limiter.last.after_burst /\ DurationLe(wait, limiter.last.waited) =>
        limiter.last.allowed

\* C13: a fresh bucket of capacity C admits exactly C requests made with no
\* elapsed time, denies the (C+1)-th, and admits one more request after a
\* wait of at least 60/C seconds.
C13_BurstThenRefill ==
    /\ BurstAdmitsCapacity
    /\ AdmitsAfter(WaitFor(RefillPeriodSecs, limiter.rpm))

\* what holds of the code: the burst, one more request after 61/C seconds,
\* and for capacity 5 one more after 12 seconds
C13_BurstThenRefillRounded ==
    /\ BurstAdmitsCapacity
    /\ AdmitsAfter(WaitFor(RefillPeriodSecs + 1, limiter.rpm))
    /\ limiter.rpm = 5 => AdmitsAfter([secs |-> 12, nanos |-> 0])

\* the exact case: capacity 19, the burst, the denial, then a request after
\* the least whole number of nanoseconds that is at least 60/19 s, denied
C13_DeniedAtQuota ==
    /\ limiter.rpm = 19
    /\ limiter.last.after_burst
    /\ limiter.last.waited = WaitFor(RefillPeriodSecs, 19)
    /\ ~limiter.last.allowed
    /\ limiter.last.status = 429

\* C14: every bucket keeps 0 <= tokens <= capacity, and the tokens of a
\* bucket change only in a request under that bucket's key: the passing of
\* time and requests under other keys leave them as they are.
C14_TokensBounded ==
    /\ [](\A k \in DOMAIN limiter.buckets :
            /\ F32Le(F32Zero, limiter.buckets[k].tokens)
            /\ F32Le(limiter.buckets[k].tokens, limiter.buckets[k].capacity)
            /\ limiter.buckets[k].capacity = F32FromNat(limiter.rpm))
    /\ [][\A k \in DOMAIN limiter.buckets \cap DOMAIN limiter'.buckets :
            limiter'.buckets[k] # limiter.buckets[k] =>
                /\ limiter'.last.key = k
                /\ limiter'.asked[k] = limiter.asked[k] + 1
                /\ limiter'.now = limiter.now]_limiter

\* after a wait the peer's bucket holds a fraction of a token, and the
\* last request came under the other key, whose bucket is full less one
C14_Witness ==
    /\ limiter.ticks = 1
    /\ DOMAIN limiter.buckets = ClientKeys
    /\ limiter.buckets[PeerIp].tokens.m # 0
    /\ ~F32Le(F32One, limiter.buckets[PeerIp].tokens)
    /\ limiter.last.key = UnknownIp
    /\ limiter.last.fresh
    /\ limiter.buckets[UnknownIp].tokens = F32FromNat(limiter.rpm - 1)
    /\ limiter.rpm > 1

\* C15: a denied request is answered 429 and the downstream service is not
\* called for it; the downstream service is called only for a request that
\* took a token from its bucket.
C15_DenialSkipsDownstream ==
    /\ [](limiter.last.status # 0 =>
            /\ limiter.last.allowed = limiter.last.invoked
            /\ ~limiter.last.allowed =>
                    /\ limiter.last.status = 429
                    /\ limiter.last.error = "Rate limit exceeded"
            /\ limiter.invoked = limiter.consumed)
    /\ [][\A k \in ClientKeys :
            limiter'.asked[k] = limiter.asked[k] + 1 =>
                LET found == IF k \in DOMAIN limiter.buckets THEN limiter.buckets[k]
                             ELSE TokenBucketNew(limiter.rpm, limiter.now)
                    filled == refill(found, limiter.now).tokens
                IN  IF limiter'.invoked = limiter.invoked + 1
                    THEN /\ F32Le(F32One, filled)
                         /\ limiter'.buckets[k].tokens = F32Sub(filled, F32One)
                    ELSE /\ limiter'.invoked = limiter.invoked
                         /\ limiter'.last.status = 429
                         /\ limiter'.buckets[k].tokens = filled]_limiter

\* the peer made capacity + 1 requests at once: the last was answered 429
\* and the downstream service was called capacity times
C15_Witness ==
    /\ limiter.last.key = PeerIp
    /\ limiter.last.status = 429
    /\ ~limiter.last.invoked
    /\ limiter.asked[PeerIp] = limiter.rpm + 1
    /\ limiter.asked[UnknownIp] = 0
    /\ limiter.invoked = limiter.rpm

(***************************************************************************)
(* SpecSubmit: the upload routes alone, one request after another          *)
(***************************************************************************)
\* uploads the handlers make before the run ends
MaxUploads == 2

\* the response is sent and the task ends; the next request gets a new one
HandlerReturn(h) ==
    /\ handlers[h].pc = "done"
    /\ backend.calls.handler < MaxUploads
    /\ handlers' = [handlers EXCEPT ![h] = IdleHandler]
    /\ UNCHANGED <<queue, senders, jobStore, worker, backend, jobLog, clientVars, sideVars>>

InitSubmit == Init

NextSubmit ==
    \/ \E h \in HandlerIds : UploadImage(h)
    \/ \E h \in HandlerIds : UploadFromUrl(h)
    \/ \E h \in HandlerIds : UploadImageDone(h)
    \/ \E h \in HandlerIds : HandlerReturn(h)

SpecSubmit == InitSubmit /\ [][NextSubmit]_vars

\* the handler got the whole file and ran its checks on it
Checked(h) ==
    \/ handlers[h].route = "upload" /\ handlers[h].req.has_file
                                    /\ handlers[h].limit = "passed"
    \/ handlers[h].route = "upload_from_url" /\ handlers[h].req.fetched

\* the handler answered with this error
Refused(h, status, error) ==
    /\ handlers[h].pc = "done"
    /\ handlers[h].status = status
    /\ handlers[h].body = [kind |-> "Error", error |-> error]

FileTooLarge(h) == Refused(h, 413, "File too large. Maximum size")
UnsupportedType(h) == Refused(h, 400, "Unsupported image type")
InvalidImage(h) == Refused(h, 400, "Invalid image data")

\* explicit content type, else the type of the filename's extension, else
\* the generic binary type
EffectiveMime(h) ==
    LET req == handlers[h].req
    IN  IF handlers[h].route = "upload" /\ req.content_type # NoMime
        THEN req.content_type
        ELSE CASE req.filename = "a.png" -> MimePng
               [] req.filename = "b.jpg" -> MimeJpeg
               [] req.filename = "d.gif" -> MimeGif
               [] req.filename = "c.txt" -> MimeText
               [] OTHER -> MimeOctet

C22_EffectiveMime ==
    \A h \in HandlerIds :
        (Checked(h) /\ Len(handlers[h].req.data) <= MaxFileSize) =>
            /\ UnsupportedType(h) <=> EffectiveMime(h) \notin AllowedImageTypes
            /\ handlers[h].pc = "upload" => handlers[h].mime_type = EffectiveMime(h)
            /\ (handlers[h].pc = "done" /\ handlers[h].status = 200) =>
                    handlers[h].body.mime_type = EffectiveMime(h)

\* a file named c.txt and declared image/png was accepted as image/png
C22_Witness ==
    \E h \in HandlerIds :
        /\ handlers[h].route = "upload"
        /\ handlers[h].req.filename = "c.txt"
        /\ handlers[h].req.content_type = MimePng
        /\ handlers[h].pc = "done"
        /\ handlers[h].status = 200
        /\ handlers[h].body.mime_type = MimePng

----------------------------------------------------------------------------
(* SpecReject: the upload routes next to a pipeline that carries the two   *)
(* jobs of SpecClient.                                                     *)

InitReject == Init

NextReject ==
    \/ \E h \in HandlerIds : UploadImage(h)
    \/ \E h \in HandlerIds : UploadFromUrl(h)
    \/ \E h \in HandlerIds : UploadImageDone(h)
    \/ \E p \in ClientJobs : SubmitJob(p)
    \/ WorkerRecv
    \/ WorkerUploadDone
    \/ WorkerWake

SpecReject == InitReject /\ [][NextReject]_vars

\* the handler answered FileTooLarge or InvalidFileFormat
RejectedByValidation(task) ==
    /\ task.pc = "done"
    /\ task.body.kind = "Error"
    /\ \/ task.status = 413 /\ task.body.error = "File too large. Maximum size"
       \/ task.status = 400 /\ task.body.error \in {"Unsupported image type",
                                                     "Invalid image data"}

\* C30: a submission rejected by validation (FileTooLarge or
\* InvalidFileFormat) has no effect: the step that rejects it starts from
\* the arrival of the request and leaves the job queue, the backend and the
\* job store as they were.
C30_RejectedNoEffect ==
    [][\A h \in HandlerIds :
        (handlers'[h] # handlers[h] /\ RejectedByValidation(handlers'[h])) =>
            /\ handlers[h].pc = "idle"
            /\ queue' = queue
            /\ jobLog' = jobLog
            /\ backend' = backend
            /\ jobStore' = jobStore]_vars

\* a file was rejected for its type while a job waited in the queue, the
\* worker had uploaded and the job store held an entry; no handler called
\* the backend
C30_Witness ==
    /\ \E h \in HandlerIds :
        /\ RejectedByValidation(handlers[h])
        /\ handlers[h].status = 400
    /\ queue # <<>>
    /\ DOMAIN jobStore # {}
    /\ backend.calls.handler = 0

----------------------------------------------------------------------------
(* SpecPace: the channel and the worker of SpecWorker with the worker's    *)
(* timer followed.  Time passes in steps of one second while tasks are     *)
(* suspended; clock.gap is the time since the worker last called           *)
(* upload_file, counted up to UploadDelaySecs, and clock.left what is left *)
(* of the sleep of src/worker.rs:63.                                       *)

\* one second passes
Elapse ==
    /\ clock.on
    /\ clock.gap < UploadDelaySecs \/ clock.left > 0
    /\ clock' = [clock EXCEPT
            !.gap = IF @ < UploadDelaySecs THEN @ + 1 ELSE @,
            !.left = IF @ > 0 THEN @ - 1 ELSE 0]
    /\ UNCHANGED <<cryptoVars, uploadVars, admin, limiter, locks, replies, logs>>

InitPace == InitPipe /\ clock = [on |-> TRUE, gap |-> 0, left |-> 0]

NextPace ==
    \/ \E p \in 1..NumSenders : SubmitJob(p)
    \/ \E p \in 1..NumSenders : SubmitResume(p)
    \/ WorkerRecv
    \/ WorkerUploadDone
    \/ WorkerWake
    \/ Elapse

SpecPace == InitPace /\ [][NextPace]_vars

\* C24: after each job, succeeded or failed, the worker waits the
\* configured delay before it receives the next job: a step that makes a
\* worker call of upload_file after an earlier one comes at least
\* UploadDelaySecs after that earlier call.
C24_DelayBetweenUploads ==
    [][(Len(backend'.calls.worker) > Len(backend.calls.worker)
            /\ backend.calls.worker # <<>>)
        => clock.gap >= UploadDelaySecs]_vars

\* the worker has called upload_file for its second job after its first
\* job failed
C24_Witness ==
    /\ Len(backend.calls.worker) = 2
    /\ worker.pc = "upload"
    /\ clock.gap = 0
    /\ ~jobLog.outcome[backend.calls.worker[1]].ok

----------------------------------------------------------------------------
(* SpecError: AppError::into_response of src/error.rs applied to two       *)
(* errors of any kind and detail.                                          *)

\* the variants of AppError that carry a String, and those that carry none
DetailKinds == {"TelegramError", "EncryptionError", "InvalidFileFormat",
                "InternalError", "ValidationError", "ConfigError"}
UnitKinds == {"RateLimitExceeded", "NotFound", "InvalidImageId", "Unauthorized",
              "InvalidId", "TooManyRequests"}
Details == {"Upload failed", "aead::Error", "Invalid image data"}

AppErrors ==
    {AppErr(k, d) : k \in DetailKinds, d \in Details}
        \cup {AppErr(k, "") : k \in UnitKinds}
        \cup {AppErr("FileTooLarge", "max_size")}

NoReply == [status |-> 0, body |-> <<>>]

\* (status, Json(json!({"error": error_message, "status": status})))
ResponseOf(e) ==
    Bind(into_response(e), LAMBDA r :
        [status |-> r.status, body |-> [error |-> r.error, status |-> r.status]])

\* the i-th error is turned into its response
IntoResponse(i) ==
    /\ replies.sent[i] = NoReply
    /\ replies' = [replies EXCEPT !.sent[i] = ResponseOf(replies.errs[i])]
    /\ UNCHANGED <<cryptoVars, uploadVars, admin, limiter, clock, locks, logs>>

InitError ==
    /\ CryptoIdle
    /\ PipeOff
    /\ AdminIdle
    /\ LimiterIdle
    /\ ClockOff
    /\ LocksOff
    /\ LogsOff
    /\ \E e1 \in AppErrors, e2 \in AppErrors :
        replies = [errs |-> <<e1, e2>>, sent |-> <<NoReply, NoReply>>]

NextError == \E i \in {1, 2} : IntoResponse(i)

SpecError == InitError /\ [][NextError]_vars

\* the status the design gives for each error kind
DocumentedStatus(kind) ==
    CASE kind \in {"ValidationError", "InvalidFileFormat"} -> 400
      [] kind = "FileTooLarge" -> 413
      [] kind \in {"RateLimitExceeded", "TooManyRequests"} -> 429
      [] kind \in {"InvalidImageId", "InvalidId"} -> 400
      [] kind = "NotFound" -> 404
      [] kind = "Unauthorized" -> 401
      [] kind = "EncryptionError" -> 500
      [] kind = "TelegramError" -> 503
      [] kind \in {"InternalError", "ConfigError"} -> 500

\* C26: every error kind is answered with its documented status, in the
\* status line and in the body.
C26_StatusTable ==
    \A i \in {1, 2} :
        replies.sent[i] # NoReply =>
            /\ replies.sent[i].status = DocumentedStatus(replies.errs[i].kind)
            /\ replies.sent[i].body.status = replies.sent[i].status

\* a backend error was answered 503 and a too large file 413
C26_Witness ==
    /\ replies.errs[1].kind = "TelegramError" /\ replies.sent[1].status = 503
    /\ replies.errs[2].kind = "FileTooLarge" /\ replies.sent[2].status = 413

\* the kinds whose detail stays in the server's log
OpaqueKinds == {"TelegramError", "EncryptionError", "InternalError", "ConfigError"}

\* C27: two backend, encryption, internal or configuration errors of the
\* same kind get the same response, whatever their details.
C27_DetailHidden ==
    (/\ replies.sent[1] # NoReply
     /\ replies.sent[2] # NoReply
     /\ replies.errs[1].kind = replies.errs[2].kind
     /\ replies.errs[1].kind \in OpaqueKinds)
        => replies.sent[1] = replies.sent[2]

\* two internal errors with different details got responses
C27_Witness ==
    /\ replies.errs[1].kind = "InternalError"
    /\ replies.errs[2].kind = "InternalError"
    /\ replies.errs[1].detail # replies.errs[2].detail
    /\ replies.sent[1] # NoReply
    /\ replies.sent[1] = replies.sent[2]

----------------------------------------------------------------------------
(* SpecLog: the operations that end with send_log_message, each run with   *)
(* the answer the log chat gave and compared with the same operation when  *)
(* the log message went through.  main.rs builds the TelegramService       *)
(* without a log chat; TelegramService::new also takes Some(chat).         *)

LogChats == {"None", "Some"}

\* what the image route is asked for: the token of a stored upload
StoredImages ==
    {Bind(FileReferenceNew(FileIdOf(m), m, Len(Uploads[m].data),
                           Uploads[m].mime_type, NonceA), LAMBDA file_ref :
        [token |-> encrypt_file_reference(Key, file_ref).val,
         files |-> (FileIdOf(m) :> encrypt_data(Key, NonceB, Uploads[m].data).val)])
     : m \in 1..Len(Uploads)}

\* run_upload_worker after process_job returned `done`: the failure of the
\* log message is traced
WorkerLogged(done, log) == done

NoLogged == [op |-> "none", input |-> <<>>, logged |-> "ok", answer |-> <<>>,
             quiet |-> <<>>]

LoggedGetImage ==
    /\ logs.last = NoLogged
    /\ \E image \in StoredImages, outcome \in DownloadOutcomes,
          logged \in LogOutcomes(logs.log_chat_id) :
        logs' = [logs EXCEPT !.last =
            [op |-> "get_image", input |-> <<image.token, outcome>>, logged |-> logged,
             answer |-> get_image(image.files, image.token, outcome, logged),
             quiet |-> get_image(image.files, image.token, outcome, "ok")]]
    /\ UNCHANGED <<cryptoVars, uploadVars, admin, limiter, clock, locks, replies>>

LoggedDeleteImage ==
    /\ logs.last = NoLogged
    /\ \E secret \in AdminSecrets, api_key \in ApiKeys, id \in DeleteIds,
          outcome \in DeleteOutcomes, logged \in LogOutcomes(logs.log_chat_id) :
        logs' = [logs EXCEPT !.last =
            [op |-> "delete_image", input |-> <<secret, api_key, id, outcome>>,
             logged |-> logged,
             answer |-> delete_image(secret, ChatMessages, api_key, id, outcome, logged),
             quiet |-> delete_image(secret, ChatMessages, api_key, id, outcome, "ok")]]
    /\ UNCHANGED <<cryptoVars, uploadVars, admin, limiter, clock, locks, replies>>

LoggedJob ==
    /\ logs.last = NoLogged
    /\ \E p \in 1..Len(Uploads), outcome \in UploadOutcomes,
          logged \in LogOutcomes(logs.log_chat_id) :
        LET done == process_job(NewJob(p, Uploads[p], NonceB), upload_file(outcome, 1),
                                NonceA, <<>>)
        IN  logs' = [logs EXCEPT !.last =
                [op |-> "job", input |-> <<p, outcome>>, logged |-> logged,
                 answer |-> WorkerLogged(done, send_log_message(logged)),
                 quiet |-> WorkerLogged(done, send_log_message("ok"))]]
    /\ UNCHANGED <<cryptoVars, uploadVars, admin, limiter, clock, locks, replies>>

InitLog ==
    /\ CryptoIdle
    /\ PipeOff
    /\ AdminIdle
    /\ LimiterIdle
    /\ ClockOff
    /\ LocksOff
    /\ RepliesOff
    /\ \E chat \in LogChats : logs = [log_chat_id |-> chat, last |-> NoLogged]

NextLog == LoggedGetImage \/ LoggedDeleteImage \/ LoggedJob

SpecLog == InitLog /\ [][NextLog]_vars

C28_WorkerUnaffected ==
    logs.last.op = "job" => logs.last.answer = logs.last.quiet

----------------------------------------------------------------------------
(* SpecLock: the two std::sync::Mutex of the service, the JobStore of      *)
(* src/main.rs:59 and the bucket map of src/middleware/rate_limit.rs:17,   *)
(* and the tasks that take them: the upload worker and the tasks serving   *)
(* requests, which run in parallel on the runtime's threads.  A task is a  *)
(* program of steps: lock and unlock of a mutex, an access to the map it   *)
(* guards, an await (suspension point: channel, timer, network I/O or the  *)
(* inner service) and the return of the response.                          *)

I(op, arg, next) == [op |-> op, arg |-> arg, next |-> next]

\* a process_job whose guard lives until the log message has been sent
WorkerProgram_LockAcrossLog ==
    << I("await", "recv", {2}),
       I("await", "upload_file", {3, 6}),
       I("lock", "job_store", {4}),
       I("access", "insert", {6}),
       I("unlock", "job_store", {7}),
       I("await", "send_log_message", {5}),
       I("await", "sleep", {1}) >>

\* run_upload_worker and process_job, src/worker.rs:36-63 and 79-100: a
\* failed upload returns before the store is touched
WorkerProgram ==
    << I("await", "recv", {2}),
       I("await", "upload_file", {3, 6}),
       I("lock", "job_store", {4}),
       I("access", "insert", {5}),
       I("unlock", "job_store", {6}),
       I("await", "send_log_message", {7}),
       I("await", "sleep", {1}) >>

\* a rate limiter that calls the inner service inside the block that
\* holds the bucket map
RequestProgram_LockAcrossInner ==
    << I("lock", "rate_limit", {2}),
       I("access", "try_consume", {3, 8}),
       I("unlock", "rate_limit", {4}),
       I("return", "429", {1}),
       I("lock", "rate_limit", {6}),
       I("access", "retain", {7}),
       I("unlock", "rate_limit", {8}),
       I("await", "inner.call", {9, 13}),
       I("lock", "job_store", {10}),
       I("access", "get", {11}),
       I("unlock", "job_store", {12}),
       I("return", "job status", {1}),
       I("await", "backend", {14}),
       I("return", "response", {1}) >>

\* RateLimitService::call, src/middleware/rate_limit.rs:78-112 (the check,
\* the denial, the occasional cleanup, the inner service), then the handler:
\* get_job_status, src/handlers/job.rs:19-46, or a handler that awaits the
\* backend and takes no lock
RequestProgram ==
    << I("lock", "rate_limit", {2}),
       I("access", "try_consume", {3}),
       I("unlock", "rate_limit", {4, 5, 8}),
       I("return", "429", {1}),
       I("lock", "rate_limit", {6}),
       I("access", "retain", {7}),
       I("unlock", "rate_limit", {8}),
       I("await", "inner.call", {9, 13}),
       I("lock", "job_store", {10}),
       I("access", "get", {11}),
       I("unlock", "job_store", {12}),
       I("return", "job status", {1}),
       I("await", "backend", {14}),
       I("return", "response", {1}) >>

RequestTasks == {"r1", "r2"}
LockTasks == {"worker"} \cup RequestTasks
Mutexes == {"job_store", "rate_limit"}

ProgramOf(t) == IF t = "worker" THEN WorkerProgram ELSE RequestProgram

\* the step task t is at
At(t) == ProgramOf(t)[locks.tasks[t].pc]

Moved(t, next, ops) == [locks.tasks EXCEPT ![t] = [pc |-> next, ops |-> ops]]

\* Mutex::lock: the thread waits while another guard is alive
Acquire(t) ==
    /\ At(t).op = "lock"
    /\ locks.held[At(t).arg] = "none"
    /\ \E next \in At(t).next :
        locks' = [held |-> [locks.held EXCEPT ![At(t).arg] = t],
                  tasks |-> Moved(t, next, 0)]
    /\ UNCHANGED <<cryptoVars, uploadVars, admin, limiter, clock, replies, logs>>

\* one operation on the map behind the guard
Access(t) ==
    /\ At(t).op = "access"
    /\ \E next \in At(t).next :
        locks' = [locks EXCEPT !.tasks = Moved(t, next, locks.tasks[t].ops + 1)]
    /\ UNCHANGED <<cryptoVars, uploadVars, admin, limiter, clock, replies, logs>>

\* the guard goes out of scope
Release(t) ==
    /\ At(t).op = "unlock"
    /\ \E next \in At(t).next :
        locks' = [held |-> [locks.held EXCEPT ![At(t).arg] = "none"],
                  tasks |-> Moved(t, next, 0)]
    /\ UNCHANGED <<cryptoVars, uploadVars, admin, limiter, clock, replies, logs>>

\* the future the task awaits is ready
Resume(t) ==
    /\ At(t).op = "await"
    /\ \E next \in At(t).next :
        locks' = [locks EXCEPT !.tasks = Moved(t, next, locks.tasks[t].ops)]
    /\ UNCHANGED <<cryptoVars, uploadVars, admin, limiter, clock, replies, logs>>

\* the response is returned; the task serves the next request
Return(t) ==
    /\ At(t).op = "return"
    /\ \E next \in At(t).next :
        locks' = [locks EXCEPT !.tasks = Moved(t, next, locks.tasks[t].ops)]
    /\ UNCHANGED <<cryptoVars, uploadVars, admin, limiter, clock, replies, logs>>

InitLock ==
    /\ CryptoIdle
    /\ PipeOff
    /\ AdminIdle
    /\ LimiterIdle
    /\ ClockOff
    /\ RepliesOff
    /\ LogsOff
    /\ locks = [held |-> [m \in Mutexes |-> "none"],
                tasks |-> [t \in LockTasks |-> [pc |-> 1, ops |-> 0]]]

NextLock ==
    \/ \E t \in LockTasks : Acquire(t)
    \/ \E t \in LockTasks : Access(t)
    \/ \E t \in LockTasks : Release(t)
    \/ \E t \in LockTasks : Resume(t)
    \/ \E t \in LockTasks : Return(t)

SpecLock == InitLock /\ [][NextLock]_vars

Holds(t, m) == locks.held[m] = t

\* C29: a task that holds the JobStore lock or the rate-limiter lock is
\* inside one operation on the map (not at a suspension point, not
\* returning, at most one access made); no task holds both locks or asks
\* for one it holds; and a task waiting for a lock waits for a holder that
\* needs nothing to go on, so the locks cannot deadlock.
C29_LockScope ==
    \A t \in LockTasks :
        /\ \A m \in Mutexes : Holds(t, m) =>
            /\ At(t).op \in {"access", "unlock"}
            /\ locks.tasks[t].ops <= 1
            /\ At(t).op = "unlock" => At(t).arg = m
        /\ ~(Holds(t, "job_store") /\ Holds(t, "rate_limit"))
        /\ At(t).op = "lock" =>
            /\ ~Holds(t, At(t).arg)
            /\ locks.held[At(t).arg] # "none" =>
                Bind(locks.held[At(t).arg], LAMBDA holder :
                    ProgramOf(holder)[locks.tasks[holder].pc].op \in {"access", "unlock"})

\* the worker holds the JobStore lock while one request waits for it and
\* the other holds the rate-limiter lock
C29_Witness ==
    /\ Holds("worker", "job_store")
    /\ \E t \in RequestTasks : At(t).op = "lock" /\ At(t).arg = "job_store"
    /\ \E t \in RequestTasks : Holds(t, "rate_limit")

----------------------------------------------------------------------------
(* SpecSize: the references the service makes and the sizes they carry:    *)
(* the upload route, one job through the worker, and image requests with   *)
(* the token of the stored reference or with a token of this service that  *)
(* names the stored file with another size.                                *)

\* what encrypt_data adds to a payload: the nonce and the tag
EnvelopeLen == NonceLen + TagLen

\* by how much the size of a presented reference is off
SizeErrors == {0, 0 - 1, 1, EnvelopeLen}

\* the job whose reference is followed
SizeJobs == {1}

\* GET /image/:id with a token of this service for the file of job j: the
\* token get_job_status issues (off = 0), or one whose size is not the
\* payload's
GetImageSized ==
    /\ \E j \in DOMAIN jobStore, off \in SizeErrors, outcome \in DownloadOutcomes,
          logged \in SendLogOutcomes :
        lastImage' = Bind(IF off = 0 THEN get_job_status(jobStore, j).response.id
                          ELSE encrypt_file_reference(Key,
                                    [jobStore[j] EXCEPT !.size = @ + off]).val,
                          LAMBDA token :
                            [job_id |-> j, token |-> token, download |-> outcome]
                                @@ get_image(backend.files, token, outcome, logged))
    /\ UNCHANGED <<queue, senders, jobStore, worker, handlers, backend, jobLog,
                   lastPoll, sideVars>>

InitSize == Init

NextSize ==
    \/ \E h \in HandlerIds : UploadImage(h)
    \/ \E h \in HandlerIds : UploadImageDone(h)
    \/ \E p \in SizeJobs : SubmitJob(p)
    \/ WorkerRecv
    \/ WorkerUploadDone
    \/ WorkerWake
    \/ GetImageSized

SpecSize == InitSize /\ [][NextSize]_vars

\* the size in the reference a token carries
TokenSize(token) == decrypt_file_reference(Key, token).val.size

\* the length of the decrypted payload the reference of a token names
PayloadLen(token) ==
    Len(decrypt_data(Key,
            backend.files[decrypt_file_reference(Key, token).val.file_id]).val)

\* the image route was asked with a token whose size is not the payload's
SizeMismatch ==
    /\ lastImage.token # <<>>
    /\ lastImage.download = "ok"
    /\ TokenSize(lastImage.token) # PayloadLen(lastImage.token)

\* C31: every FileReference in the job store or inside an issued token has
\* the byte length of the original image as its size, the encrypted payload
\* kept by the backend being NonceLen + TagLen = 28 bytes longer; and
\* GET /image answers an error and no bytes whenever the decrypted payload
\* is not as long as the reference says.
C31_SizeIsPlaintextLength ==
    /\ \A j \in DOMAIN jobStore :
        /\ jobStore[j].size = Len(UploadOf(j).data)
        /\ Len(backend.files[jobStore[j].file_id]) = jobStore[j].size + EnvelopeLen
        /\ TokenSize(get_job_status(jobStore, j).response.id) = Len(UploadOf(j).data)
    /\ \A h \in HandlerIds :
        (handlers[h].pc = "done" /\ handlers[h].body.kind = "UploadResponse") =>
            /\ TokenSize(handlers[h].body.id) = Len(handlers[h].req.data)
            /\ PayloadLen(handlers[h].body.id) = Len(handlers[h].req.data)
    /\ SizeMismatch => (lastImage.status >= 400 /\ lastImage.body = <<>>)
    /\ lastImage.status = 200 => Len(lastImage.body) = TokenSize(lastImage.token)

\* a token that gives the length of the encrypted payload as the size was
\* refused with an internal error, after the upload route had issued a
\* token and a job had been stored
C31_Witness ==
    /\ SizeMismatch
    /\ TokenSize(lastImage.token) = PayloadLen(lastImage.token) + EnvelopeLen
    /\ lastImage.status = 500
    /\ \E h \in HandlerIds :
        handlers[h].pc = "done" /\ handlers[h].body.kind = "UploadResponse"

----------------------------------------------------------------------------
(* The sweep of the rate limiter, under SpecRL *)

IdleThreshold == [secs |-> StaleSecs, nanos |-> 0]

\* how long bucket k has not been refilled
IdleFor(k) == duration_since(limiter.now, limiter.buckets[k].last_refill)

\* the buckets a step removed
Swept == DOMAIN limiter.buckets \ DOMAIN limiter'.buckets

\* the step is a request through the limiter
IsCall == limiter'.asked # limiter.asked

\* what the sweep does apart from which buckets it picks: it removes
\* buckets only in the step of an admitted request, never the bucket of
\* that request, and every bucket that stays, but the request's own, is
\* unchanged
SweepFrame ==
    /\ Swept # {} => (IsCall /\ limiter'.last.allowed)
    /\ IsCall => limiter'.last.key \in DOMAIN limiter'.buckets
    /\ \A k \in DOMAIN limiter'.buckets :
        (IsCall /\ k = limiter'.last.key)
            \/ (k \in DOMAIN limiter.buckets /\ limiter'.buckets[k] = limiter.buckets[k])

\* C32 as stated: the sweep runs only as part of an admitted request and
\* removes exactly the buckets whose last refill is older than 300 seconds,
\* keeping every other bucket unchanged; the bucket of the request that
\* triggered it is never removed.
C32_SweepOlderThan ==
    [][/\ SweepFrame
       /\ Swept # {} =>
            Swept = {k \in DOMAIN limiter.buckets \ {limiter'.last.key} :
                        ~DurationLe(IdleFor(k), IdleThreshold)}]_vars

\* C32 amended: the sweep runs only as part of an admitted request and
\* removes exactly the buckets whose last refill is at least 300 seconds
\* old (a bucket idle for 300 seconds to the nanosecond is removed), keeping
\* every other bucket unchanged; the bucket of the request that triggered
\* it is never removed.
C32_SweepAtLeast ==
    [][/\ SweepFrame
       /\ Swept # {} =>
            Swept = {k \in DOMAIN limiter.buckets \ {limiter'.last.key} :
                        DurationLe(IdleThreshold, IdleFor(k))}]_vars

\* an admitted request has swept away the bucket of a client that had made
\* a request, and kept its own
C32_Witness ==
    /\ limiter.last.allowed
    /\ limiter.last.key \in DOMAIN limiter.buckets
    /\ \E k \in ClientKeys : limiter.asked[k] > 0 /\ k \notin DOMAIN limiter.buckets

----------------------------------------------------------------------------
(* SpecGC: the rate limiter of SpecRL next to the same limiter without     *)
(* eviction and next to one limiter for each client.  limiter.plain is the *)
(* bucket map the same requests leave when no bucket is ever removed and   *)
(* limiter.plain_allowed its decision on the last request; limiter.solo[k] *)
(* is the bucket map of a limiter that sees the requests of client k and   *)
(* no others, limiter.solo_allowed its decision on the last request.       *)

\* the decisions of the limiter without eviction and of the client's own
\* limiter on one request, and the bucket maps they leave
Shadows(key, cleanup) ==
    [kept |-> call(limiter.plain, limiter.rpm, key, limiter.now, FALSE),
     alone |-> call(limiter.solo[key], limiter.rpm, key, limiter.now, cleanup)]

\* one request, decided by the limiter, by the limiter without eviction
\* and by the client's own limiter
CallBoth ==
    /\ \E key \in ClientKeys, cleanup \in BOOLEAN :
        /\ limiter.asked[key] < Budget(key, limiter.rpm)
        /\ limiter' = Bind(Shadows(key, cleanup), LAMBDA shadow :
                [Called(key, cleanup) EXCEPT
                    !.plain = shadow.kept.buckets,
                    !.plain_allowed = shadow.kept.allowed,
                    !.solo = [@ EXCEPT ![key] = shadow.alone.buckets],
                    !.solo_allowed = shadow.alone.allowed])
    /\ UNCHANGED <<cryptoVars, uploadVars, admin, taskVars>>

\* RateLimitLayer.requests_per_minute: a bucket of one token, which every
\* request empties, and a bucket of several
EvictionCapacities == {1, 5}

InitGC ==
    /\ CryptoIdle
    /\ PipeOff
    /\ AdminIdle
    /\ TasksIdle
    /\ \E rpm \in EvictionCapacities :
        limiter = [rpm |-> rpm, now |-> DurationZero, ticks |-> 0, buckets |-> <<>>,
                   asked |-> [k \in ClientKeys |-> 0], invoked |-> 0, consumed |-> 0,
                   tally |-> [k \in ClientKeys |-> NoTally], last |-> NoCall,
                   plain |-> <<>>, plain_allowed |-> FALSE,
                   solo |-> [k \in ClientKeys |-> <<>>], solo_allowed |-> FALSE]

NextGC == CallBoth \/ Tick

SpecGC == InitGC /\ [][NextGC]_vars

\* C33: evicting idle buckets never changes an admission decision: after
\* every sequence of requests, waits and sweeps the last request was
\* admitted by the limiter exactly when the limiter without eviction
\* admitted it, and every bucket the limiter still holds is the bucket the
\* limiter without eviction holds for that key.
C33_EvictionInvisible ==
    /\ limiter.last.allowed = limiter.plain_allowed
    /\ \A k \in DOMAIN limiter.buckets :
        k \in DOMAIN limiter.plain /\ limiter.plain[k] = limiter.buckets[k]

\* a client whose bucket had been evicted came back, got a new bucket and
\* was admitted, as it was by the limiter that had kept its bucket
C33_Witness ==
    /\ limiter.last.fresh
    /\ limiter.asked[limiter.last.key] > 1
    /\ limiter.last.allowed
    /\ limiter.plain_allowed

\* C35: buckets are independent per client: a request of one client makes
\* or changes that client's bucket only, so every bucket the limiter holds
\* is the bucket the client's requests alone leave in a limiter no other
\* client uses, and each request is admitted exactly when that limiter
\* admits it: one client exhausting its quota never has another denied.
C35_BucketsIndependent ==
    /\ limiter.last.allowed = limiter.solo_allowed
    /\ \A k \in DOMAIN limiter.buckets :
        /\ k \in DOMAIN limiter.solo[k]
        /\ limiter.solo[k][k] = limiter.buckets[k]
    /\ \A k \in ClientKeys : DOMAIN limiter.solo[k] \subseteq {k}

\* the peer has spent its quota and been denied, and the request of the
\* other client that followed was admitted
C35_Witness ==
    /\ limiter.last.key = UnknownIp
    /\ limiter.last.allowed
    /\ PeerIp \in DOMAIN limiter.buckets
    /\ ~F32Le(F32One, limiter.buckets[PeerIp].tokens)
    /\ limiter.tally[PeerIp].calls > limiter.tally[PeerIp].admitted

----------------------------------------------------------------------------
(* SpecCredit: the rate limiter with pauses that are parts of one refill   *)
(* period.  limiter.credit notes, per key, whether the key's bucket was    *)
(* emptied (an admitted request left it 0 tokens), when, and the denied    *)
(* requests made on it since; limiter.owed is that note as the last        *)
(* request found it and limiter.called the time of the last request.       *)

\* RateLimitLayer.requests_per_minute
CreditCapacities == {5, 19, 25}
\* pauses in one behaviour
MaxPauses == 2
\* a quarter, three quarters and the whole of the time one token takes
CreditWaits(rpm) ==
    { WaitFor(RefillPeriodSecs \div 4, rpm), WaitFor(3 * (RefillPeriodSecs \div 4), rpm),
      WaitFor(RefillPeriodSecs, rpm) }

NoCredit == [emptied |-> FALSE, at |-> DurationZero, denials |-> 0]

\* one request, and the note of emptied buckets and denials it leaves
CallCredit ==
    /\ \E key \in ClientKeys, cleanup \in BOOLEAN :
        /\ limiter.asked[key] < Budget(key, limiter.rpm)
        /\ limiter' = Bind(Called(key, cleanup), LAMBDA after :
                [after EXCEPT
                    !.owed = limiter.credit[key],
                    !.called = limiter.now,
                    !.credit = [k \in ClientKeys |->
                        IF k \notin DOMAIN after.buckets THEN NoCredit
                        ELSE IF k # key THEN @[k]
                        ELSE IF ~after.last.allowed
                        THEN [@[k] EXCEPT !.denials = @ + 1]
                        ELSE IF after.buckets[k].tokens = F32Zero
                        THEN [emptied |-> TRUE, at |-> limiter.now, denials |-> 0]
                        ELSE NoCredit]])
    /\ UNCHANGED <<cryptoVars, uploadVars, admin, taskVars>>

\* time passes; nothing runs
Pause ==
    /\ limiter.ticks < MaxPauses
    /\ \E wait \in CreditWaits(limiter.rpm) :
        limiter' = [limiter EXCEPT !.now = DurationAdd(@, wait), !.ticks = @ + 1]
    /\ UNCHANGED <<cryptoVars, uploadVars, admin, taskVars>>

InitCredit ==
    /\ CryptoIdle
    /\ PipeOff
    /\ AdminIdle
    /\ TasksIdle
    /\ \E rpm \in CreditCapacities :
        limiter = [rpm |-> rpm, now |-> DurationZero, ticks |-> 0, buckets |-> <<>>,
                   asked |-> [k \in ClientKeys |-> 0], invoked |-> 0, consumed |-> 0,
                   tally |-> [k \in ClientKeys |-> NoTally], last |-> NoCall,
                   credit |-> [k \in ClientKeys |-> NoCredit], owed |-> NoCredit,
                   called |-> DurationZero]

NextCredit == CallCredit \/ Pause

SpecCredit == InitCredit /\ [][NextCredit]_vars

\* the bucket a denied request leaves: the tokens it found plus the credit
\* of the time since the last refill, none taken, and last_refill at now
DeniedCredits ==
    limiter.last.key # "" /\ ~limiter.last.allowed =>
        LET bucket == limiter.buckets[limiter.last.key]
        IN  /\ bucket.tokens =
                    F32Min(F32Add(limiter.last.before,
                                  F32Mul(as_secs_f32(limiter.last.waited),
                                         bucket.refill_rate)),
                           bucket.capacity)
            /\ bucket.last_refill = limiter.called

\* the request found its bucket emptied `wait` or more ago, with denied
\* requests on it since
OwedSince(wait) ==
    /\ limiter.last.key # ""
    /\ limiter.owed.emptied
    /\ limiter.owed.denials >= 1
    /\ DurationLe(wait, duration_since(limiter.called, limiter.owed.at))

\* C34: a denied request takes no token, credits the elapsed time and
\* advances last_refill, and a client that has been denied is admitted
\* again once 60/capacity seconds or more have passed since its bucket was
\* emptied, however many denied requests it made in between.
C34_CreditAcrossDenials ==
    /\ DeniedCredits
    /\ OwedSince(WaitFor(RefillPeriodSecs, limiter.rpm)) => limiter.last.allowed

\* the exact case: capacity 25, the bucket emptied by 25 requests, a denied
\* request 0.6 s later and a request 1.8 s after that, 2.4 s = 60/25 s after
\* the bucket was emptied, denied
C34_DeniedAfterQuota ==
    /\ limiter.rpm = 25
    /\ limiter.owed.emptied
    /\ limiter.owed.denials = 1
    /\ duration_since(limiter.called, limiter.owed.at) = [secs |-> 2, nanos |-> 400000000]
    /\ limiter.last.waited = [secs |-> 1, nanos |-> 800000000]
    /\ ~limiter.last.allowed
    /\ limiter.last.status = 429

\* the same client with no denied request in between: one request 2.4 s
\* after the bucket was emptied, admitted
C34_AdmittedUndisturbed ==
    /\ limiter.rpm = 25
    /\ limiter.owed.emptied
    /\ limiter.owed.denials = 0
    /\ limiter.last.waited = [secs |-> 2, nanos |-> 400000000]
    /\ limiter.last.allowed

----------------------------------------------------------------------------
(* SpecDrain: the senders, the bounded channel and the worker of           *)
(* SpecWorker, with the worker task scheduled fairly, every backend call   *)
(* and every sleep returning, and a suspended send completing once the     *)
(* channel has room.                                                       *)

InitDrain == Init

NextDrain ==
    \/ \E p \in 1..NumSenders : SubmitJob(p)
    \/ \E p \in 1..NumSenders : SubmitResume(p)
    \/ WorkerRecv
    \/ WorkerUploadDone
    \/ WorkerWake

SpecDrain ==
    /\ InitDrain
    /\ [][NextDrain]_vars
    /\ WF_vars(WorkerRecv)
    /\ WF_vars(WorkerUploadDone)
    /\ WF_vars(WorkerWake)
    /\ \A p \in 1..NumSenders : WF_vars(SubmitResume(p))

\* job j waits in the channel
Waiting(j) == \E i \in 1..Len(queue) : queue[i].job_id = j

\* the worker took job j from the channel
Dequeued(j) == \E i \in 1..Len(Started) : Started[i] = j

\* C36: no accepted job is dropped: a job that was sent on the channel is
\* in the channel, with the worker or processed, and under fair scheduling
\* of the worker with returning backend calls it is eventually dequeued and
\* processed, whether its upload succeeds or fails; a send suspended on the
\* full channel is eventually accepted.
C36_NoJobDropped ==
    /\ [](\A j \in JobIds :
            Accepted(j) =>
                \/ Waiting(j)
                \/ worker.pc = "upload" /\ worker.job.job_id = j
                \/ Finished(j))
    /\ \A j \in JobIds : Accepted(j) ~> (Dequeued(j) /\ Finished(j))
    /\ \A p \in JobIds : (senders[p].pc = "blocked") ~> Accepted(p)

\* every sender's job was accepted, dequeued and processed, one of them
\* with a failed upload, and the channel is empty
C36_Witness ==
    /\ \A j \in JobIds : Accepted(j) /\ Dequeued(j) /\ Finished(j)
    /\ \E j \in JobIds : JobFailed(j)
    /\ queue = <<>>
    /\ worker.pc = "recv"

====
